---- MODULE Spec2Model ----
(***************************************************************************)
(* Aggregate persistence layer of the site administration console:         *)
(* services/site.ts (createSiteWithDetails, deleteSite, fetchFilteredSites)*)
(* and services/fileUpload (uploadImage, saveFileToDatabase, deleteImage,  *)
(* debugSupabaseConnection), with the react-query mutations of             *)
(* SiteManagementTable.tsx that consume their results.                     *)
(*                                                                         *)
(* Every remote call (relational store, object storage) is one step of the *)
(* calling function and ends in one of three outcomes: it takes effect     *)
(* ("ok"), it returns an error object and has no effect ("error"), or it   *)
(* raises an exception and has no effect ("throw").                        *)
(***************************************************************************)
EXTENDS Integers, Sequences, FiniteSets, TLC

\* ---------------------------------------------------------------- bounds
MaxSites == 2
MaxFiles == 2
MaxPromos == 2
MaxBonus == 2
MaxPage == 3
MaxPageSize == 2
MaxUsers == 2
TableSites == 11
MaxDeletions == 1
MaxEvents == 2

\* ------------------------------------------------------- program constants
\* a null uuid column (logo_image: siteData.logo_image || null)
NoId == 0
\* const [pageSize] = useState(10) of SiteManagementTable
tablePageSize == 10

Outcomes == {"ok", "error", "throw"}
\* a URL outside the bucket ('https://example.com/test.jpg')
ExampleUrl == 99

\* texts are sequences of characters; "A" is the one upper-case letter used
Lower(c) == IF c = "A" THEN "a" ELSE c
\* the basic-info drafts the wizard submits (first step of the modal)
BasicInfos ==
  { [name |-> <<"A", "l">>, url |-> <<"x">>, type |-> "casino", status |-> "active"],
    [name |-> <<"x">>, url |-> <<"a", "l">>, type |-> "sports", status |-> "active"],
    [name |-> <<"l", "a">>, url |-> <<"x">>, type |-> "casino", status |-> "suspended"] }

VARIABLES
  Site,                 \* table Site: set of rows
  SiteInfo,             \* table SiteInfo: rows in insertion order
  SiteDepositPromotion, \* table SiteDepositPromotion: rows in insertion order
  File,                 \* table File: set of rows
  FileDetail,           \* table FileDetail: set of rows
  storage,              \* object storage bucket: set of paths holding a blob
  SiteEvent,            \* table SiteEvent: set of rows
  nextSite,             \* next store-generated site_seq
  nextFile,             \* next store-generated file_seq
  nextPath,             \* next generated storage path
  calls,                \* the service calls: locals, position and returned result
  mut,                  \* the react-query mutation wrapping the service call
  ui,                   \* SiteRegistrationModal / toast state
  queryCache,           \* react-query cache: the entry of key ['siteCounts']
  wizard,               \* SiteRegistrationModal: currentStep, formData
  detail,               \* SiteDetail: the basic-info edit and its logo control
  siteTable,            \* SiteManagementTable: page, filter, search, query result
  authUsers,            \* the users of the built-in authentication system
  UserInfo              \* table UserInfo: set of rows

storeVars == <<Site, SiteInfo, SiteDepositPromotion, File, FileDetail, storage, SiteEvent>>
idVars == <<nextSite, nextFile, nextPath>>
screenVars == <<wizard, detail, siteTable>>
authVars == <<authUsers, UserInfo>>
vars == <<Site, SiteInfo, SiteDepositPromotion, File, FileDetail, storage, SiteEvent,
          nextSite, nextFile, nextPath, calls, mut, ui, queryCache,
          wizard, detail, siteTable, authUsers, UserInfo>>

cs == calls.createSiteWithDetails
up == calls.uploadImage
di == calls.deleteImage
dbg == calls.debugSupabaseConnection
ds == calls.deleteSite
ff == calls.fetchFilteredSites
us == calls.updateSite
usOther == calls.updateSiteOther
su == calls.signUp
pv == calls.previewSiteDeletion

\* ------------------------------------------------------------ store rules
\* DELETE FROM Site WHERE site_seq = s, with the declared ON DELETE CASCADE
SiteAfterDelete(s) == {r \in Site : r.site_seq # s}
SiteInfoAfterSiteDelete(s) == SelectSeq(SiteInfo, LAMBDA r : r.site_seq # s)
PromotionsAfterSiteDelete(s) ==
  SelectSeq(SiteDepositPromotion, LAMBDA r : r.site_seq # s)
SiteEventAfterSiteDelete(s) == {r \in SiteEvent : r.site_seq # s}

\* DELETE FROM File WHERE file_seq = f: FileDetail cascades, Site.logo_image
\* is set to NULL (comment of deleteImage)
FileAfterDelete(f) == {r \in File : r.file_seq # f}
FileDetailAfterFileDelete(f) == {r \in FileDetail : r.file_seq # f}
SiteAfterFileDelete(f) ==
  {IF r.logo_image = f THEN [r EXCEPT !.logo_image = NoId] ELSE r : r \in Site}

\* ------------------------------------------------- createSiteWithDetails
\* bonus_amount 0 is the default of a draft added by the wizard's addPromotion
PromotionDrafts == [bonus_rate : 1..MaxBonus, bonus_amount : {0}]

RECURSIVE SeqsUpTo(_, _)
SeqsUpTo(S, n) ==
  IF n = 0 THEN {<<>>}
  ELSE LET shorter == SeqsUpTo(S, n - 1)
       IN shorter \cup {Append(q, e) : q \in {p \in shorter : Len(p) = n - 1}, e \in S}

\* `${promotion.bonus_rate}+${promotion.bonus_amount} <suffix>`; the suffix is
\* the Korean word for "deposit bonus", written here in Latin letters
PromotionSuffix == " ipple"
promotion_name_swapped(promotion) ==
  ToString(promotion.bonus_amount) \o "+" \o ToString(promotion.bonus_rate) \o PromotionSuffix
promotion_name(promotion) ==
  ToString(promotion.bonus_rate) \o "+" \o ToString(promotion.bonus_amount) \o PromotionSuffix

promotionData(siteData, site_seq) ==
  [i \in 1..Len(siteData.promotions) |->
     [site_seq |-> site_seq,
      promotion_name |-> promotion_name(siteData.promotions[i]),
      bonus_rate |-> siteData.promotions[i].bonus_rate,
      bonus_amount |-> siteData.promotions[i].bonus_amount]]

NoError == "none"
NoSiteData == [name |-> <<>>, url |-> <<>>, type |-> "sports", status |-> "active",
               logo_image |-> NoId, promotions |-> <<>>]
\* failed: the insert of this call that failed, "" while none has;
\* issued: the remote calls this call has issued, in order
csIdle == [pc |-> "idle", siteData |-> NoSiteData, siteResult |-> {}, failed |-> "",
           issued |-> <<>>, data |-> {}, error |-> NoError]
\* a blob picked in a file input: its size in bytes and its MIME type, split at
\* the slash
NoBlob == [size |-> 0, type |-> <<>>]
\* cleanup: the outcome of the storage removal that follows a failed save,
\* "none" while it was not issued
\* uploadResult: "success" or "failure" once uploadImageToStorage has returned
upIdle == [pc |-> "idle", file |-> NoBlob, filePath |-> NoId, file_seq |-> NoId, detailFailed |-> FALSE,
           uploadResult |-> "none",
           saveResult |-> "none", cleanup |-> "none", success |-> FALSE, fileSeq |-> NoId, error |-> NoError]
\* failed: the remote call of this deleteImage that failed, "" while none has;
\* before: the blobs and file rows when the call was entered
NoSnapshot == [storage |-> {}, File |-> {}, FileDetail |-> {}]
diIdle == [pc |-> "idle", caller |-> "none", fileSeq |-> NoId, file_path |-> NoId,
           failed |-> "", before |-> NoSnapshot, success |-> FALSE, error |-> NoError]
\* file: the blob handleFileSelect uploads once the connection test is over
dbgIdle == [pc |-> "idle", file |-> NoBlob]
\* logo_url: the file_url of the logo's File row when the site was read
\* deleted: the outcome of the Site delete, "none" while it was not issued
dsIdle == [pc |-> "idle", siteSeq |-> NoId, logo_image |-> NoId, logo_url |-> NoId,
           deleted |-> "none", error |-> NoError]
NoFilter == [type |-> "", status |-> "", is_recommend |-> "", search |-> <<>>]
ffIdle == [pc |-> "idle", filter |-> NoFilter, page |-> 1, pageSize |-> 1,
           range |-> <<>>, rows |-> <<>>, count |-> 0, lookups |-> <<>>,
           lookupFailed |-> FALSE,
           dataIsNull |-> FALSE, data |-> <<>>, totalCount |-> 0, error |-> NoError]
\* response: how the store answered the update, "none" while it has not
usIdle == [pc |-> "idle", siteSeq |-> NoId, updates |-> [status |-> ""], response |-> "none",
           data |-> {}, error |-> NoError]
\* relatedData: { siteInfo: [], promotions: [], events: [], banners: [] }
NoRelatedData == [siteInfo |-> <<>>, promotions |-> <<>>, events |-> {}, banners |-> {}]
\* failedChildren: the child queries of this call that returned an error
pvIdle == [pc |-> "idle", siteSeq |-> NoId, site |-> {}, logoImage |-> {},
           relatedData |-> NoRelatedData, failedChildren |-> {}, error |-> NoError]
\* authData: the uid of the created auth user; rollback: the outcome of
\* auth.admin.deleteUser, "none" while it was not called; user, error: the
\* returned LoginResponse
NoRequest == [id |-> NoId, email |-> NoId]
suIdle == [pc |-> "idle", signUpRequest |-> NoRequest, authData |-> NoId,
           userInfoFailed |-> FALSE, rollback |-> "none", user |-> NoId, error |-> NoError]
mutIdle == [name |-> "none", status |-> "idle"]
\* countData || { allCount: 0, activeCount: 0, suspendedCount: 0, closedCount: 0 }
NoCounts == [allCount |-> 0, activeCount |-> 0, suspendedCount |-> 0, closedCount |-> 0]
\* the cache entry of ['siteCounts']: absent until the first fetch; stale once
\* staleTime has elapsed since the fetch; invalidated by invalidateQueries
NoCacheEntry == [present |-> FALSE, isInvalidated |-> FALSE, isStale |-> FALSE,
                 data |-> NoCounts]
\* queryClient.invalidateQueries({ queryKey: ['siteCounts'] }); an absent entry
\* has nothing to invalidate
invalidateSiteCounts ==
  IF queryCache.present THEN [queryCache EXCEPT !.isInvalidated = TRUE] ELSE queryCache
noCalls == [createSiteWithDetails |-> csIdle, uploadImage |-> upIdle,
            deleteImage |-> diIdle, debugSupabaseConnection |-> dbgIdle,
            deleteSite |-> dsIdle, fetchFilteredSites |-> ffIdle,
            updateSite |-> usIdle, previewSiteDeletion |-> pvIdle,
            updateSiteOther |-> usIdle, signUp |-> suIdle]

\* useState of SiteRegistrationModal: the first step, a form with one
\* promotion line { bonus_rate: 0, bonus_amount: 0 }
BlankBasicInfo == [name |-> <<>>, url |-> <<>>, type |-> "sports", status |-> "active"]
initialWizard == [currentStep |-> "basic", basic |-> BlankBasicInfo,
                  promotions |-> <<[bonus_rate |-> 0, bonus_amount |-> 0]>>]
\* useState of SiteDetail: not editing; before: the stored site and file
\* state when the edit was started
\* replaced: the file (and its storage path) that the control referenced when
\* the last successful upload took its place, NoId while none was replaced
NoAggregate == [Site |-> {}, File |-> {}, FileDetail |-> {}, storage |-> {}]
NoFile == [file_seq |-> NoId, file_path |-> NoId]
initialDetail == [siteSeq |-> NoId, isEditingBasicInfo |-> FALSE, logoImage |-> NoId,
                  originalLogoImage |-> NoId, before |-> NoAggregate, replaced |-> NoFile]
\* useState of SiteManagementTable: currentPage 1, filter 'all', searchTerm '';
\* and its useQuery(['sites', filter, currentPage, pageSize]): queryResult is
\* undefined (sites [], totalCount 0) until a fetch settles.
\* stale: the query of the current key is due to run its queryFn (on mount,
\* after a change of the key, after invalidateQueries);
\* isPlaceholderData: the data shown is that of the previous key
initialTable == [currentPage |-> 1, selectedFilter |-> "all", searchTerm |-> <<>>,
                 stale |-> TRUE, isFetching |-> FALSE, hasData |-> FALSE,
                 isPlaceholderData |-> FALSE, isError |-> FALSE,
                 sites |-> <<>>, totalCount |-> 0]
\* queryClient.invalidateQueries({ queryKey: ['sites'] })
invalidateSites == [siteTable EXCEPT !.stale = TRUE]
InitScreens ==
  /\ wizard = initialWizard /\ detail = initialDetail /\ siteTable = initialTable
  /\ authUsers = {} /\ UserInfo = {}

Init ==
  /\ Site = {} /\ SiteInfo = <<>> /\ SiteDepositPromotion = <<>>
  /\ File = {} /\ FileDetail = {} /\ storage = {} /\ SiteEvent = {}
  /\ queryCache = NoCacheEntry
  /\ nextSite = 1 /\ nextFile = 1 /\ nextPath = 1
  /\ calls = noCalls
  /\ mut = mutIdle
  /\ ui = [wizardOpen |-> FALSE, toast |-> "none"]
  /\ InitScreens

\* one administrative client: an operation starts when no other is in flight
Idle ==
  /\ \A c \in DOMAIN calls : calls[c].pc \in {"idle", "done"}
  /\ mut.status # "pending"

\* the registration drafts the wizard can submit
\* handleLogoUpload keeps the fileSeq of a successful uploadImage
UploadedFiles == {f.file_seq : f \in {g \in File : \E d \in FileDetail : d.file_seq = g.file_seq}}
siteDataWithLogo(b, l, p) ==
  [name |-> b.name, url |-> b.url, type |-> b.type, status |-> b.status,
   logo_image |-> l, promotions |-> p]
SiteRegistrationData ==
  {siteDataWithLogo(b, l, p) :
     b \in BasicInfos, l \in {NoId} \cup UploadedFiles,
     p \in SeqsUpTo(PromotionDrafts, MaxPromos) \ {<<>>}}
\* the drafts with a single promotion line (the wizard starts with one line)
DefaultPromotionData ==
  {d \in SiteRegistrationData : d.promotions = <<[bonus_rate |-> 1, bonus_amount |-> 0]>>}
\* the first-step values of one site name, and the untouched fields
SingleBasicInfo == {b \in BasicInfos : b.name = <<"A", "l">>} \cup {BlankBasicInfo}
\* the drafts of one site name
SingleDraftData == {d \in DefaultPromotionData : d.name = <<"A", "l">>}

\* SiteRegistrationModal: the modal is opened from the table's "register" button
OpenWizard ==
  /\ Idle /\ ~ui.wizardOpen
  /\ ui' = [wizardOpen |-> TRUE, toast |-> "none"]
  /\ calls' = noCalls /\ mut' = mutIdle
  /\ UNCHANGED <<storeVars, idVars, queryCache>>
  /\ UNCHANGED <<screenVars, authVars>>

\* handleSubmit on the last step: createSiteMutation.mutate(siteDataWithLogo),
\* whose mutationFn enters createSiteWithDetails
handleSubmit(siteData) ==
  /\ Idle /\ ui.wizardOpen
  /\ nextSite <= MaxSites
  /\ mut' = [name |-> "create", status |-> "pending"]
  /\ calls' = [noCalls EXCEPT !.createSiteWithDetails =
                 [csIdle EXCEPT !.pc = "insertSite", !.siteData = siteData]]
  /\ ui' = [ui EXCEPT !.toast = "none"]
  /\ UNCHANGED <<storeVars, idVars, queryCache>>
  /\ UNCHANGED <<screenVars, authVars>>

csGoto(pc) == [calls EXCEPT !.createSiteWithDetails.pc = pc]
csReturn_dataKept(data, error) ==
  [calls EXCEPT !.createSiteWithDetails =
     [cs EXCEPT !.pc = "done", !.data = cs.siteResult, !.error = error]]
csReturn(data, error) ==
  [calls EXCEPT !.createSiteWithDetails =
     [cs EXCEPT !.pc = "done", !.data = data, !.error = error]]
csFailed(step, next) ==
  [next EXCEPT !.createSiteWithDetails.failed = step]
csIssued(remoteCall, next) ==
  [next EXCEPT !.createSiteWithDetails.issued = Append(@, remoteCall)]

\* step 1: insert into Site ... .select().single()
createSite_InsertSite(o) ==
  /\ cs.pc = "insertSite"
  /\ IF o = "ok"
     THEN LET row == [site_seq |-> nextSite, name |-> cs.siteData.name,
                      url |-> cs.siteData.url, type |-> cs.siteData.type,
                      is_recommend |-> FALSE, status |-> cs.siteData.status,
                      logo_image |-> cs.siteData.logo_image]
          IN /\ Site' = Site \cup {row}
             /\ nextSite' = nextSite + 1
             /\ calls' = csIssued("insert Site",
                            [calls EXCEPT !.createSiteWithDetails =
                               [cs EXCEPT !.pc = "insertSiteInfo", !.siteResult = {row}]])
     ELSE /\ calls' = csIssued("insert Site", csFailed("insertSite",
                           csReturn({}, IF o = "error" THEN "siteError" ELSE "exception")))
          /\ UNCHANGED <<Site, nextSite>>
  /\ UNCHANGED <<SiteInfo, SiteDepositPromotion, File, FileDetail, storage,
                 nextFile, nextPath, mut, ui, SiteEvent, queryCache>>
  /\ UNCHANGED <<screenVars, authVars>>

site_seq_of(call) == (CHOOSE r \in call.siteResult : TRUE).site_seq

\* step 2: insert into SiteInfo keyed by siteResult.site_seq
createSite_InsertSiteInfo(o) ==
  /\ cs.pc = "insertSiteInfo"
  /\ IF o = "ok"
     THEN /\ SiteInfo' = Append(SiteInfo, [site_seq |-> site_seq_of(cs)])
          /\ calls' = csIssued("insert SiteInfo",
                         IF Len(cs.siteData.promotions) > 0
                         THEN csGoto("insertPromotions")
                         ELSE csReturn(cs.siteResult, NoError))
     ELSE /\ calls' = csIssued("insert SiteInfo", csFailed("insertSiteInfo",
                           IF o = "error" THEN csGoto("deleteAfterSiteInfo")
                           ELSE csReturn({}, "exception")))
          /\ UNCHANGED SiteInfo
  /\ UNCHANGED <<Site, SiteDepositPromotion, File, FileDetail, storage, idVars, mut, ui, SiteEvent, queryCache>>
  /\ UNCHANGED <<screenVars, authVars>>

compensatingDelete_withLogo(o, error) ==
  /\ IF o = "ok"
     THEN /\ Site' = SiteAfterDelete(site_seq_of(cs))
          /\ SiteInfo' = SiteInfoAfterSiteDelete(site_seq_of(cs))
          /\ SiteDepositPromotion' = PromotionsAfterSiteDelete(site_seq_of(cs))
          /\ SiteEvent' = SiteEventAfterSiteDelete(site_seq_of(cs))
          /\ File' = FileAfterDelete(cs.siteData.logo_image)
          /\ FileDetail' = FileDetailAfterFileDelete(cs.siteData.logo_image)
     ELSE UNCHANGED <<Site, SiteInfo, SiteDepositPromotion, SiteEvent, File, FileDetail>>
  /\ calls' = csIssued("delete Site", csReturn({}, IF o = "throw" THEN "exception" ELSE error))
  /\ UNCHANGED <<storage, idVars, mut, ui, queryCache>>
  /\ UNCHANGED <<screenVars, authVars>>
\* the awaited Site delete of either failure branch; its result is not inspected
compensatingDelete(o, error) ==
  /\ IF o = "ok"
     THEN /\ Site' = SiteAfterDelete(site_seq_of(cs))
          /\ SiteInfo' = SiteInfoAfterSiteDelete(site_seq_of(cs))
          /\ SiteDepositPromotion' = PromotionsAfterSiteDelete(site_seq_of(cs))
          /\ SiteEvent' = SiteEventAfterSiteDelete(site_seq_of(cs))
     ELSE UNCHANGED <<Site, SiteInfo, SiteDepositPromotion, SiteEvent>>
  /\ calls' = csIssued("delete Site", csReturn({}, IF o = "throw" THEN "exception" ELSE error))
  /\ UNCHANGED <<File, FileDetail, storage, idVars, mut, ui, queryCache>>
  /\ UNCHANGED <<screenVars, authVars>>

createSite_DeleteAfterSiteInfo(o) ==
  /\ cs.pc = "deleteAfterSiteInfo"
  /\ compensatingDelete(o, "siteInfoError")

\* step 3: one batch insert of the mapped promotion rows
createSite_InsertPromotions(o) ==
  /\ cs.pc = "insertPromotions"
  /\ IF o = "ok"
     THEN /\ SiteDepositPromotion' =
               SiteDepositPromotion \o promotionData(cs.siteData, site_seq_of(cs))
          /\ calls' = csIssued("insert SiteDepositPromotion", csReturn(cs.siteResult, NoError))
     ELSE /\ calls' = csIssued("insert SiteDepositPromotion", csFailed("insertPromotions",
                           IF o = "error" THEN csGoto("deleteAfterPromotions")
                           ELSE csReturn({}, "exception")))
          /\ UNCHANGED SiteDepositPromotion
  /\ UNCHANGED <<Site, SiteInfo, File, FileDetail, storage, idVars, mut, ui, SiteEvent, queryCache>>
  /\ UNCHANGED <<screenVars, authVars>>

createSite_DeleteAfterPromotions(o) ==
  /\ cs.pc = "deleteAfterPromotions"
  /\ compensatingDelete(o, "promotionError")

\* react-query settles the mutation: onSuccess when the mutationFn's promise
\* resolved, onError when it rejected. createSiteWithDetails catches every
\* exception, so its promise always resolves.
createSiteMutation_settle ==
  /\ mut = [name |-> "create", status |-> "pending"]
  /\ cs.pc = "done"
  /\ mut' = [mut EXCEPT !.status = "success"]
  /\ ui' = [wizardOpen |-> FALSE, toast |-> "success"]
  /\ wizard' = initialWizard
  /\ siteTable' = invalidateSites
  /\ queryCache' = invalidateSiteCounts
  /\ UNCHANGED <<storeVars, idVars, calls>>
  /\ UNCHANGED <<detail, authVars>>

\* ------------------------------------------- SiteRegistrationModal: form
\* SiteRegistrationModal.handleClose: resets the form and closes the modal
handleClose ==
  /\ Idle /\ ui.wizardOpen
  /\ wizard' = initialWizard
  /\ ui' = [wizardOpen |-> FALSE, toast |-> "none"]
  /\ calls' = noCalls /\ mut' = mutIdle
  /\ UNCHANGED <<storeVars, idVars, queryCache, detail, siteTable, authVars>>

\* a step of the form that changes wizard only
wizardStep(next) ==
  /\ Idle /\ ui.wizardOpen
  /\ wizard' = next
  /\ UNCHANGED <<storeVars, idVars, calls, mut, ui, queryCache, detail, siteTable, authVars>>

\* handleInputChange on the fields of the first step
handleInputChange(basic) == wizardStep([wizard EXCEPT !.basic = basic])

\* the values typed into a promotion line: bonus_rate from -1 to MaxBonus
PromotionInputs == [bonus_rate : -1..MaxBonus, bonus_amount : {0}]
\* handlePromotionChange(index, field, value)
handlePromotionChange(index, promotion) ==
  /\ index \in 1..Len(wizard.promotions)
  /\ wizardStep([wizard EXCEPT !.promotions[index] = promotion])

\* addPromotion appends { bonus_rate: 0, bonus_amount: 0 }
addPromotion ==
  /\ Len(wizard.promotions) < MaxPromos
  /\ wizardStep([wizard EXCEPT !.promotions =
                   Append(@, [bonus_rate |-> 0, bonus_amount |-> 0])])

\* promotions.filter((_, i) => i !== index)
without(promotions, index) ==
  [i \in 1..(Len(promotions) - 1) |->
     IF i < index THEN promotions[i] ELSE promotions[i + 1]]
\* removePromotion(index): only while formData.promotions.length > 1
removePromotion(index) ==
  /\ index \in 1..Len(wizard.promotions)
  /\ wizardStep(IF Len(wizard.promotions) > 1
                THEN [wizard EXCEPT !.promotions = without(@, index)]
                ELSE wizard)

\* validateStep(step): no error was recorded for the step. The url texts of
\* the drafts stand for what follows "http://" or "https://": an empty one
\* fails the required test, any other passes the pattern. The details step
\* has no required field.
validateStep(step) ==
  CASE step = "basic" -> Len(wizard.basic.name) > 0 /\ Len(wizard.basic.url) > 0
    [] step = "details" -> TRUE
    [] step = "promotions" ->
         /\ Len(wizard.promotions) # 0
         /\ \A i \in 1..Len(wizard.promotions) :
              /\ ~(wizard.promotions[i].bonus_rate < 0)
              /\ ~(wizard.promotions[i].bonus_amount < 0)
    [] OTHER -> TRUE

\* SiteRegistrationModal.handleNext: to the next step when the current one
\* validates
handleNext ==
  /\ wizard.currentStep \in {"basic", "details", "promotions"}
  /\ wizardStep(IF validateStep(wizard.currentStep)
                THEN [wizard EXCEPT !.currentStep =
                        CASE wizard.currentStep = "basic" -> "details"
                          [] wizard.currentStep = "details" -> "promotions"
                          [] OTHER -> "images"]
                ELSE wizard)

\* SiteRegistrationModal.handlePrev
handlePrev ==
  /\ wizard.currentStep \in {"details", "promotions", "images"}
  /\ wizardStep([wizard EXCEPT !.currentStep =
                   CASE wizard.currentStep = "details" -> "basic"
                     [] wizard.currentStep = "promotions" -> "details"
                     [] OTHER -> "promotions"])

\* SiteRegistrationModal.handleSubmit: only on the step 'images' and only
\* when the three validations pass is the form handed to createSiteMutation
submitForm ==
  /\ wizard.currentStep = "images"
  /\ validateStep("basic") /\ validateStep("details") /\ validateStep("promotions")
  /\ \E l \in {NoId} \cup UploadedFiles :
       handleSubmit(siteDataWithLogo(wizard.basic, l, wizard.promotions))

\* --------------------------------------------------------- file service
\* maxSize = 5 (megabytes), the default ceiling of ImageUpload
maxSize == 5
Blobs == [size : {maxSize * 1024 * 1024, maxSize * 1024 * 1024 + 1},
          type : {<<"image", "png">>, <<"application", "pdf">>}]
\* file.size > maxSize * 1024 * 1024 and !file.type.startsWith('image/') reject
passesValidation(file) ==
  /\ ~(file.size > maxSize * 1024 * 1024)
  /\ Len(file.type) > 0 /\ file.type[1] = "image"

\* ImageUpload.handleFileUpload: a blob that fails the local validation sets
\* the error text and returns; any other blob enters uploadImage(file)
handleFileUpload(file) ==
  /\ Idle
  /\ nextPath <= MaxFiles /\ nextFile <= MaxFiles
  /\ calls' = IF passesValidation(file)
              THEN [noCalls EXCEPT !.uploadImage =
                      [upIdle EXCEPT !.pc = "upload", !.file = file]]
              ELSE noCalls
  /\ mut' = mutIdle
  /\ ui' = [ui EXCEPT !.toast = "none"]
  /\ UNCHANGED <<storeVars, idVars, queryCache>>
  /\ UNCHANGED <<screenVars, authVars>>

upGoto(pc) == [calls EXCEPT !.uploadImage.pc = pc]
upReturn(success, fileSeq, error) ==
  [calls EXCEPT !.uploadImage =
     [up EXCEPT !.pc = "done", !.success = success, !.fileSeq = fileSeq, !.error = error]]

\* uploadImageToStorage: storage.upload(filePath, file) under a fresh path;
\* the function catches its own exceptions and reports success: false
uploadImageToStorage_failureIgnored(o) ==
  /\ up.pc = "upload"
  /\ IF o = "ok"
     THEN /\ storage' = storage \cup {nextPath}
          /\ nextPath' = nextPath + 1
          /\ calls' = [calls EXCEPT !.uploadImage =
                         [up EXCEPT !.pc = "insertFile", !.filePath = nextPath,
                                    !.uploadResult = "success"]]
     ELSE /\ calls' = [calls EXCEPT !.uploadImage =
                         [up EXCEPT !.pc = "insertFile", !.filePath = nextPath,
                                    !.uploadResult = "failure"]]
          /\ nextPath' = nextPath + 1
          /\ UNCHANGED storage
  /\ UNCHANGED <<Site, SiteInfo, SiteDepositPromotion, File, FileDetail,
                 nextSite, nextFile, mut, ui, SiteEvent, queryCache>>
  /\ UNCHANGED <<screenVars, authVars>>
uploadImageToStorage(o) ==
  /\ up.pc = "upload"
  /\ IF o = "ok"
     THEN /\ storage' = storage \cup {nextPath}
          /\ nextPath' = nextPath + 1
          /\ calls' = [calls EXCEPT !.uploadImage =
                         [up EXCEPT !.pc = "insertFile", !.filePath = nextPath,
                                    !.uploadResult = "success"]]
     ELSE /\ calls' = [upReturn(FALSE, NoId,
                                IF o = "error" THEN "storageError" ELSE "exception")
                         EXCEPT !.uploadImage.uploadResult = "failure"]
          /\ UNCHANGED <<storage, nextPath>>
  /\ UNCHANGED <<Site, SiteInfo, SiteDepositPromotion, File, FileDetail,
                 nextSite, nextFile, mut, ui, SiteEvent, queryCache>>
  /\ UNCHANGED <<screenVars, authVars>>

saveFailed(error) ==
  [calls EXCEPT !.uploadImage =
     [up EXCEPT !.pc = "removeFromStorage", !.saveResult = "failure", !.error = error]]

\* saveFileToDatabase: insert into File ... .select().single()
saveFile_InsertFile(o) ==
  /\ up.pc = "insertFile"
  /\ IF o = "ok"
     THEN /\ File' = File \cup {[file_seq |-> nextFile, file_url |-> up.filePath]}
          /\ nextFile' = nextFile + 1
          /\ calls' = [calls EXCEPT !.uploadImage =
                         [up EXCEPT !.pc = "insertFileDetail", !.file_seq = nextFile]]
     ELSE /\ calls' = saveFailed(IF o = "error" THEN "fileError" ELSE "exception")
          /\ UNCHANGED <<File, nextFile>>
  /\ UNCHANGED <<Site, SiteInfo, SiteDepositPromotion, FileDetail, storage,
                 nextSite, nextPath, mut, ui, SiteEvent, queryCache>>
  /\ UNCHANGED <<screenVars, authVars>>

\* ImageUpload.handleFileUpload after a successful uploadImage:
\* onImageUpload(result.fileSeq, result.fileUrl), which is SiteDetail's
\* handleLogoUpload while the basic-info form is open (setLogoImage(fileSeq)).
\* The file the control referenced before is not passed to anything.
handleLogoUpload(fileSeq) ==
  IF detail.isEditingBasicInfo /\ dbg.file = NoBlob
  THEN [detail EXCEPT !.logoImage = fileSeq,
                      !.replaced =
                        IF detail.logoImage = NoId THEN NoFile
                        ELSE [file_seq |-> detail.logoImage,
                              file_path |->
                                IF \E d \in FileDetail : d.file_seq = detail.logoImage
                                THEN (CHOOSE d \in FileDetail :
                                        d.file_seq = detail.logoImage).file_path
                                ELSE NoId]]
  ELSE detail
\* ImageUpload.handleRemoveImage after a successful deleteImage:
\* onImageRemove(), which is SiteDetail's handleLogoRemove (setLogoImage(null))
handleLogoRemove ==
  IF detail.isEditingBasicInfo /\ di.caller = "ImageUpload"
  THEN [detail EXCEPT !.logoImage = NoId]
  ELSE detail

\* saveFileToDatabase: insert into FileDetail keyed by fileResult.file_seq
saveFile_InsertFileDetail(o) ==
  /\ up.pc = "insertFileDetail"
  /\ IF o = "ok"
     THEN /\ FileDetail' = FileDetail \cup {[file_seq |-> up.file_seq, file_path |-> up.filePath]}
          /\ calls' = [calls EXCEPT !.uploadImage =
                         [up EXCEPT !.pc = "done", !.saveResult = "success",
                                    !.success = TRUE, !.fileSeq = up.file_seq]]
          /\ detail' = handleLogoUpload(up.file_seq)
     ELSE /\ calls' = IF o = "error"
                      THEN [calls EXCEPT !.uploadImage =
                              [up EXCEPT !.pc = "deleteFile", !.detailFailed = TRUE]]
                      ELSE [calls EXCEPT !.uploadImage =
                              [up EXCEPT !.pc = "removeFromStorage", !.detailFailed = TRUE,
                                         !.saveResult = "failure", !.error = "exception"]]
          /\ UNCHANGED <<FileDetail, detail>>
  /\ UNCHANGED <<Site, SiteInfo, SiteDepositPromotion, File, storage, idVars, mut, ui, SiteEvent, queryCache>>
  /\ UNCHANGED <<wizard, siteTable, authVars>>

\* saveFileToDatabase: the awaited File delete after detailError; its result
\* is not inspected
saveFile_DeleteFile(o) ==
  /\ up.pc = "deleteFile"
  /\ IF o = "ok"
     THEN /\ File' = FileAfterDelete(up.file_seq)
          /\ FileDetail' = FileDetailAfterFileDelete(up.file_seq)
          /\ Site' = SiteAfterFileDelete(up.file_seq)
     ELSE UNCHANGED <<File, FileDetail, Site>>
  /\ calls' = saveFailed(IF o = "throw" THEN "exception" ELSE "detailError")
  /\ UNCHANGED <<SiteInfo, SiteDepositPromotion, storage, idVars, mut, ui, SiteEvent, queryCache>>
  /\ UNCHANGED <<screenVars, authVars>>

\* uploadImage: after a failed save, the awaited storage.remove([filePath]);
\* its result is not inspected
uploadImage_RemoveFromStorage_blobKept(o) ==
  /\ up.pc = "removeFromStorage"
  /\ calls' = [upReturn(FALSE, NoId, IF o = "throw" THEN "exception" ELSE up.error)
                 EXCEPT !.uploadImage.cleanup = o]
  /\ UNCHANGED <<Site, SiteInfo, SiteDepositPromotion, File, FileDetail, storage, SiteEvent,
                 idVars, mut, ui, queryCache>>
  /\ UNCHANGED <<screenVars, authVars>>
uploadImage_RemoveFromStorage(o) ==
  /\ up.pc = "removeFromStorage"
  /\ storage' = IF o = "ok" THEN storage \ {up.filePath} ELSE storage
  /\ calls' = [upReturn(FALSE, NoId, IF o = "throw" THEN "exception" ELSE up.error)
                 EXCEPT !.uploadImage.cleanup = o]
  /\ UNCHANGED <<Site, SiteInfo, SiteDepositPromotion, File, FileDetail, idVars, mut, ui, SiteEvent, queryCache>>
  /\ UNCHANGED <<screenVars, authVars>>

snapshot == [storage |-> storage, File |-> File, FileDetail |-> FileDetail]

\* ImageUpload.handleRemoveImage enters deleteImage(currentFileSeq)
deleteImage_call(fileSeq) ==
  /\ Idle
  /\ calls' = [noCalls EXCEPT !.deleteImage =
                 [diIdle EXCEPT !.pc = "selectDetail", !.caller = "ImageUpload",
                                !.fileSeq = fileSeq, !.before = snapshot]]
  /\ mut' = mutIdle
  /\ ui' = [ui EXCEPT !.toast = "none"]
  /\ UNCHANGED <<storeVars, idVars, queryCache>>
  /\ UNCHANGED <<screenVars, authVars>>

diReturn_abortsDeleteSite(success, error) ==
  [calls EXCEPT !.deleteImage = [di EXCEPT !.pc = "done", !.success = success, !.error = error],
                !.deleteSite = IF di.caller # "deleteSite" THEN @
                               ELSE IF success THEN [@ EXCEPT !.pc = "deleteSite"]
                               ELSE [@ EXCEPT !.pc = "done", !.error = error]]
\* deleteImage returns to its caller; deleteSite goes on to its Site delete
\* whatever the result
diReturn(success, error) ==
  [calls EXCEPT !.deleteImage = [di EXCEPT !.pc = "done", !.success = success, !.error = error],
                !.deleteSite.pc = IF di.caller = "deleteSite" THEN "deleteSite" ELSE @]
diFailed(step, next) == [next EXCEPT !.deleteImage.failed = step]

\* deleteImage: select file_path from FileDetail where file_seq = fileSeq,
\* .single() (no row is an error)
deleteImage_SelectDetail(o) ==
  /\ di.pc = "selectDetail"
  /\ LET found == {r \in FileDetail : r.file_seq = di.fileSeq}
     IN calls' = IF o = "ok" /\ found # {}
                 THEN [calls EXCEPT !.deleteImage =
                         [di EXCEPT !.pc = "removeFromStorage",
                                    !.file_path = (CHOOSE r \in found : TRUE).file_path]]
                 ELSE diFailed("selectDetail",
                        diReturn(FALSE, IF o = "throw" THEN "exception" ELSE "detailError"))
  /\ UNCHANGED <<storeVars, idVars, mut, ui, queryCache>>
  /\ UNCHANGED <<screenVars, authVars>>

deleteImage_RemoveFromStorage_errorIgnored(o) ==
  /\ di.pc = "removeFromStorage"
  /\ IF o = "ok"
     THEN /\ storage' = storage \ {di.file_path}
          /\ calls' = [calls EXCEPT !.deleteImage.pc = "deleteFile"]
     ELSE /\ calls' = IF o = "throw"
                      THEN diFailed("removeFromStorage", diReturn(FALSE, "exception"))
                      ELSE diFailed("removeFromStorage",
                                    [calls EXCEPT !.deleteImage.pc = "deleteFile"])
          /\ UNCHANGED storage
  /\ UNCHANGED <<Site, SiteInfo, SiteDepositPromotion, File, FileDetail, idVars, mut, ui, SiteEvent, queryCache>>
  /\ UNCHANGED <<screenVars, authVars>>

\* deleteImage: storage.remove([fileDetail.file_path])
deleteImage_RemoveFromStorage(o) ==
  /\ di.pc = "removeFromStorage"
  /\ IF o = "ok"
     THEN /\ storage' = storage \ {di.file_path}
          /\ calls' = [calls EXCEPT !.deleteImage.pc = "deleteFile"]
     ELSE /\ calls' = diFailed("removeFromStorage",
                         diReturn(FALSE, IF o = "throw" THEN "exception" ELSE "storageError"))
          /\ UNCHANGED storage
  /\ UNCHANGED <<Site, SiteInfo, SiteDepositPromotion, File, FileDetail, idVars, mut, ui, SiteEvent, queryCache>>
  /\ UNCHANGED <<screenVars, authVars>>

deleteImage_DeleteFile_dbErrorIgnored(o) ==
  /\ di.pc = "deleteFile"
  /\ IF o = "ok"
     THEN /\ File' = FileAfterDelete(di.fileSeq)
          /\ FileDetail' = FileDetailAfterFileDelete(di.fileSeq)
          /\ Site' = SiteAfterFileDelete(di.fileSeq)
     ELSE UNCHANGED <<File, FileDetail, Site>>
  /\ calls' = IF o = "throw" THEN diReturn(FALSE, "exception") ELSE diReturn(TRUE, NoError)
  /\ UNCHANGED <<SiteInfo, SiteDepositPromotion, storage, idVars, mut, ui, SiteEvent, queryCache>>
  /\ UNCHANGED <<screenVars, authVars>>

\* deleteImage: delete from File where file_seq = fileSeq
deleteImage_DeleteFile(o) ==
  /\ di.pc = "deleteFile"
  /\ IF o = "ok"
     THEN /\ File' = FileAfterDelete(di.fileSeq)
          /\ FileDetail' = FileDetailAfterFileDelete(di.fileSeq)
          /\ Site' = SiteAfterFileDelete(di.fileSeq)
          /\ calls' = diReturn(TRUE, NoError)
          /\ detail' = handleLogoRemove
     ELSE /\ calls' = diFailed("deleteFile",
                         diReturn(FALSE, IF o = "throw" THEN "exception" ELSE "dbError"))
          /\ UNCHANGED <<File, FileDetail, Site, detail>>
  /\ UNCHANGED <<SiteInfo, SiteDepositPromotion, storage, idVars, mut, ui, SiteEvent, queryCache>>
  /\ UNCHANGED <<wizard, siteTable, authVars>>

\* ImageUploadTest enters debugSupabaseConnection()
debugSupabaseConnection_call(file) ==
  /\ Idle
  /\ nextFile <= MaxFiles
  /\ calls' = [noCalls EXCEPT !.debugSupabaseConnection =
                 [dbgIdle EXCEPT !.pc = "getSession", !.file = file]]
  /\ mut' = mutIdle
  /\ ui' = [ui EXCEPT !.toast = "none"]
  /\ UNCHANGED <<storeVars, idVars, queryCache>>
  /\ UNCHANGED <<screenVars, authVars>>

\* ImageUploadTest.handleConnectionTest: the connection test alone
handleConnectionTest == debugSupabaseConnection_call(NoBlob)
\* ImageUploadTest.handleFileSelect: the connection test, then uploadImage(file)
\* with the blob as it was picked
handleFileSelect(file) ==
  /\ nextFile < MaxFiles /\ nextPath <= MaxFiles
  /\ debugSupabaseConnection_call(file)

\* debugSupabaseConnection returns (it catches its exceptions); handleFileSelect
\* goes on to uploadImage(file)
dbgReturn ==
  IF dbg.file = NoBlob
  THEN [calls EXCEPT !.debugSupabaseConnection.pc = "done"]
  ELSE [calls EXCEPT !.debugSupabaseConnection.pc = "done",
                     !.uploadImage = [upIdle EXCEPT !.pc = "upload", !.file = dbg.file]]

\* auth.getSession(), then select count from File limit 1: reads whose error
\* is logged; an exception leaves the function through its catch
debug_Read(o) ==
  /\ dbg.pc \in {"getSession", "selectFile"}
  /\ calls' = IF o = "throw" THEN dbgReturn
              ELSE [calls EXCEPT !.debugSupabaseConnection.pc =
                      IF dbg.pc = "getSession" THEN "selectFile" ELSE "insertFile"]
  /\ UNCHANGED <<storeVars, idVars, mut, ui, queryCache>>
  /\ UNCHANGED <<screenVars, authVars>>

\* the insert test: a File row 'test-debug.jpg' with a URL outside the bucket
debug_InsertFile(o) ==
  /\ dbg.pc = "insertFile"
  /\ IF o = "ok"
     THEN /\ File' = File \cup {[file_seq |-> nextFile, file_url |-> ExampleUrl]}
          /\ nextFile' = nextFile + 1
     ELSE UNCHANGED <<File, nextFile>>
  /\ calls' = IF o = "throw" THEN dbgReturn
              ELSE [calls EXCEPT !.debugSupabaseConnection.pc = "listBucket"]
  /\ UNCHANGED <<Site, SiteInfo, SiteDepositPromotion, FileDetail, storage,
                 nextSite, nextPath, mut, ui, SiteEvent, queryCache>>
  /\ UNCHANGED <<screenVars, authVars>>

\* storage.list('', {limit: 1})
debug_ListBucket(o) ==
  /\ dbg.pc = "listBucket"
  /\ calls' = dbgReturn
  /\ UNCHANGED <<storeVars, idVars, mut, ui, queryCache>>
  /\ UNCHANGED <<screenVars, authVars>>

\* handleDelete: deleteSiteMutation.mutate(siteSeq), whose mutationFn enters
\* deleteSite(siteSeq)
handleDelete(siteSeq) ==
  /\ Idle
  /\ mut' = [name |-> "delete", status |-> "pending"]
  /\ calls' = [noCalls EXCEPT !.deleteSite =
                 [dsIdle EXCEPT !.pc = "selectSite", !.siteSeq = siteSeq]]
  /\ ui' = [ui EXCEPT !.toast = "none"]
  /\ UNCHANGED <<storeVars, idVars, queryCache>>
  /\ UNCHANGED <<screenVars, authVars>>

dsReturn(error) == [calls EXCEPT !.deleteSite = [ds EXCEPT !.pc = "done", !.error = error]]

\* 1. select site_seq, logo_image from Site where site_seq = siteSeq, .single();
\* 2. a logo enters deleteImage(siteData.logo_image)
deleteSite_SelectSite(o) ==
  /\ ds.pc = "selectSite"
  /\ LET found == {r \in Site : r.site_seq = ds.siteSeq}
         logo == (CHOOSE r \in found : TRUE).logo_image
     IN calls' =
          IF o = "ok" /\ found # {}
          THEN IF logo # NoId
               THEN [calls EXCEPT !.deleteSite =
                            [ds EXCEPT !.pc = "deleteImage", !.logo_image = logo,
                                       !.logo_url = (CHOOSE f \in File : f.file_seq = logo).file_url],
                                  !.deleteImage = [diIdle EXCEPT !.pc = "selectDetail",
                                                                 !.caller = "deleteSite",
                                                                 !.fileSeq = logo,
                                                                 !.before = snapshot]]
               ELSE [calls EXCEPT !.deleteSite.pc = "deleteSite"]
          ELSE dsReturn(IF o = "throw" THEN "exception" ELSE "fetchError")
  /\ UNCHANGED <<storeVars, idVars, mut, ui, queryCache>>
  /\ UNCHANGED <<screenVars, authVars>>

\* 3. delete from Site where site_seq = siteSeq
deleteSite_DeleteSite(o) ==
  /\ ds.pc = "deleteSite"
  /\ IF o = "ok"
     THEN /\ Site' = SiteAfterDelete(ds.siteSeq)
          /\ SiteInfo' = SiteInfoAfterSiteDelete(ds.siteSeq)
          /\ SiteDepositPromotion' = PromotionsAfterSiteDelete(ds.siteSeq)
          /\ SiteEvent' = SiteEventAfterSiteDelete(ds.siteSeq)
          /\ calls' = [dsReturn(NoError) EXCEPT !.deleteSite.deleted = o]
     ELSE /\ calls' = [dsReturn(IF o = "throw" THEN "exception" ELSE "deleteError")
                         EXCEPT !.deleteSite.deleted = o]
          /\ UNCHANGED <<Site, SiteInfo, SiteDepositPromotion, SiteEvent>>
  /\ UNCHANGED <<File, FileDetail, storage, idVars, mut, ui, queryCache>>
  /\ UNCHANGED <<screenVars, authVars>>

\* react-query settles the mutation: deleteSite catches every exception, so
\* its promise always resolves and onSuccess runs
deleteSiteMutation_settle ==
  /\ mut = [name |-> "delete", status |-> "pending"]
  /\ ds.pc = "done"
  /\ mut' = [mut EXCEPT !.status = "success"]
  /\ ui' = [ui EXCEPT !.toast = "success"]
  /\ siteTable' = invalidateSites
  /\ queryCache' = invalidateSiteCounts
  /\ UNCHANGED <<storeVars, idVars, calls>>
  /\ UNCHANGED <<wizard, detail, authVars>>

\* ---------------------------------------------------- fetchFilteredSites
Min(a, b) == IF a < b THEN a ELSE b

\* the store's LIKE: in a pattern "%" stands for any run of characters and "_"
\* for any one character; every other character stands for itself
RECURSIVE likeMatch(_, _)
likeMatch(text, pattern) ==
  IF pattern = <<>> THEN text = <<>>
  ELSE IF Head(pattern) = "%"
       THEN \/ likeMatch(text, Tail(pattern))
            \/ text # <<>> /\ likeMatch(Tail(text), pattern)
       ELSE /\ text # <<>>
            /\ Head(pattern) = "_" \/ Head(pattern) = Head(text)
            /\ likeMatch(Tail(text), Tail(pattern))

\* column.ilike.%${filter.search}%: the search term is placed in the pattern as
\* it was typed; ILIKE compares without regard to case
ilike(text, term) ==
  LET lower(t) == [i \in 1..Len(t) |-> Lower(t[i])]
  IN likeMatch(lower(text), <<"%">> \o lower(term) \o <<"%">>)

\* the predicate the query builder accumulates; an unset (falsy) filter field
\* adds no condition
matches(site, filter) ==
  /\ filter.type # "" => site.type = filter.type
  /\ filter.status # "" => site.status = filter.status
  /\ filter.is_recommend # "" => site.is_recommend = (filter.is_recommend = "true")
  /\ filter.search # <<>> => ilike(site.name, filter.search) \/ ilike(site.url, filter.search)

\* .order("created_at", {ascending: false}): site_seq grows with created_at
RECURSIVE orderDesc(_)
orderDesc(S) ==
  IF S = {} THEN <<>>
  ELSE LET newest == CHOOSE r \in S : \A q \in S : q.site_seq <= r.site_seq
       IN <<newest>> \o orderDesc(S \ {newest})

\* const from = (page - 1) * pageSize; const to = from + pageSize - 1
rangeFrom(page, pageSize) == (page - 1) * pageSize
rangeTo_inclusiveOfNext(page, pageSize) == rangeFrom(page, pageSize) + pageSize
rangeTo(page, pageSize) == rangeFrom(page, pageSize) + pageSize - 1

\* the store's answer to select("*", {count: 'exact'}) ... .range(from, to):
\* rows from..to (zero-based, inclusive) of the ordered filtered set, and the
\* size of the filtered set
queryRows(filter, from, to) ==
  LET ordered == orderDesc({r \in Site : matches(r, filter)})
  IN SubSeq(ordered, from + 1, Min(to + 1, Len(ordered)))
queryCount(filter) == Cardinality({r \in Site : matches(r, filter)})

\* (data || []).map(site => site.logo_image).filter(id => id !== null ...)
logoImageIds_unfiltered(rows) ==
  [i \in 1..Len(rows) |-> rows[i].logo_image]
logoImageIds(rows) ==
  LET ids == [i \in 1..Len(rows) |-> rows[i].logo_image]
  IN SelectSeq(ids, LAMBDA id : id # NoId)

\* logo_url: site.logo_image ? logoUrls[site.logo_image] || null : null
sitesWithLogo(rows, logoUrls) ==
  [i \in 1..Len(rows) |->
     [site |-> rows[i],
      logo_url |-> IF rows[i].logo_image # NoId
                      /\ \E f \in logoUrls : f.file_seq = rows[i].logo_image
                   THEN (CHOOSE f \in logoUrls : f.file_seq = rows[i].logo_image).file_url
                   ELSE NoId]]

\* the filters of the list screen and of the tab-badge counts
SiteFilters ==
  { NoFilter,
    [NoFilter EXCEPT !.status = "active"],
    [NoFilter EXCEPT !.search = <<"a", "l">>],
    [NoFilter EXCEPT !.search = <<"_", "l">>],
    [NoFilter EXCEPT !.type = "casino", !.search = <<"a", "l">>],
    [NoFilter EXCEPT !.status = "suspended", !.is_recommend = "false"] }

\* useQuery(['sites', filter, currentPage, pageSize]) enters
\* fetchFilteredSites(filter, page, pageSize)
fetchFilteredSites_call(filter, page, pageSize) ==
  /\ Idle
  /\ calls' = [noCalls EXCEPT !.fetchFilteredSites =
                 [ffIdle EXCEPT !.pc = "query", !.filter = filter, !.page = page,
                                !.pageSize = pageSize]]
  /\ mut' = mutIdle
  /\ ui' = [ui EXCEPT !.toast = "none"]
  /\ UNCHANGED <<storeVars, idVars, queryCache>>
  /\ UNCHANGED <<screenVars, authVars>>

ffReturn(call, dataIsNull, data, totalCount, error) ==
  [calls EXCEPT !.fetchFilteredSites =
     [call EXCEPT !.pc = "done", !.dataIsNull = dataIsNull, !.data = data,
                  !.totalCount = totalCount, !.error = error]]

\* the one round trip for the page and its exact count
fetch_Query(o) ==
  /\ ff.pc = "query"
  /\ LET from == rangeFrom(ff.page, ff.pageSize)
         to == rangeTo(ff.page, ff.pageSize)
         rows == queryRows(ff.filter, from, to)
         asked == [ff EXCEPT !.range = <<from, to>>]
         got == [asked EXCEPT !.rows = rows, !.count = queryCount(ff.filter)]
     IN calls' =
          IF o = "ok"
          THEN IF Len(logoImageIds(rows)) > 0
               THEN [calls EXCEPT !.fetchFilteredSites = [got EXCEPT !.pc = "selectFiles"]]
               ELSE ffReturn(got, FALSE, sitesWithLogo(rows, {}), got.count, NoError)
          ELSE ffReturn(asked, TRUE, <<>>, 0, IF o = "throw" THEN "exception" ELSE "fetchError")
  /\ UNCHANGED <<storeVars, idVars, mut, ui, queryCache>>
  /\ UNCHANGED <<screenVars, authVars>>

\* from File ... .in("file_seq", logoImageIds)
filesIn_everyRow(ids) == File
filesIn(ids) == {f \in File : \E i \in 1..Len(ids) : ids[i] = f.file_seq}

\* select file_seq, file_url from File where file_seq in (logoImageIds); an
\* error or an exception of this lookup leaves logoUrls empty
fetch_SelectFiles(o) ==
  /\ ff.pc = "selectFiles"
  /\ LET ids == logoImageIds(ff.rows)
         fileData == filesIn(ids)
         logoUrls == IF o = "ok" THEN fileData ELSE {}
         looked == [ff EXCEPT !.lookups = Append(@, ids), !.lookupFailed = (o # "ok")]
     IN calls' = ffReturn(looked, FALSE, sitesWithLogo(ff.rows, logoUrls), ff.count, NoError)
  /\ UNCHANGED <<storeVars, idVars, mut, ui, queryCache>>
  /\ UNCHANGED <<screenVars, authVars>>

\* ------------------------------------------------------------ updateSite
\* the status values an edit can set (UpdateSiteRequest.status)
Statuses == {"active", "suspended", "closed"}
UpdateSiteRequests == [status : Statuses]

\* mutate({ siteSeq, updates }) of an updateSiteMutation, whose mutationFn
\* enters updateSite(siteSeq, updates)
updateSite_call(screen, siteSeq, updates) ==
  /\ Idle
  /\ mut' = [name |-> screen, status |-> "pending"]
  /\ calls' = [noCalls EXCEPT !.updateSite =
                 [usIdle EXCEPT !.pc = "update", !.siteSeq = siteSeq, !.updates = updates]]
  /\ ui' = [ui EXCEPT !.toast = "none"]
  /\ UNCHANGED <<storeVars, idVars, queryCache>>
  /\ UNCHANGED <<screenVars, authVars>>

\* SiteManagementTable.handleSave: the inline edit of the list screen
handleSave(siteSeq, updates) == updateSite_call("update", siteSeq, updates)
\* SiteDetail.handleSaveBasicInfo: the basic-info form of the detail screen
handleSaveBasicInfo(siteSeq, updates) == updateSite_call("updateDetail", siteSeq, updates)

\* the row after "update Site set ...updates": the keys present in updates
\* are written, the others are kept
applyUpdates(r, updates) ==
  LET withStatus == [r EXCEPT !.status = updates.status]
  IN IF "logo_image" \in DOMAIN updates
     THEN [withStatus EXCEPT !.logo_image = updates.logo_image]
     ELSE withStatus
\* update Site set ...updates where site_seq = siteSeq, .select().single()
\* (no row is an error)
updateSite_UpdateOf_firstWriteWins(call, o) ==
  /\ calls[call].pc = "update"
  /\ LET this == calls[call]
         other == IF call = "updateSite" THEN usOther ELSE us
         found == {r \in Site : r.site_seq = this.siteSeq}
         updated == {applyUpdates(r, this.updates) : r \in found}
     IN IF o = "ok" /\ found # {} /\ other.data = {}
        THEN /\ Site' = (Site \ found) \cup updated
             /\ calls' = [calls EXCEPT ![call] =
                            [this EXCEPT !.pc = "done", !.response = o, !.data = updated]]
        ELSE /\ calls' = [calls EXCEPT ![call] =
                            [this EXCEPT !.pc = "done", !.response = o,
                                         !.error = IF o = "throw" THEN "exception"
                                                   ELSE "updateError"]]
             /\ UNCHANGED Site
  /\ UNCHANGED <<SiteInfo, SiteDepositPromotion, File, FileDetail, storage, SiteEvent,
                 idVars, mut, ui, queryCache>>
  /\ UNCHANGED <<screenVars, authVars>>
updateSite_UpdateOf(call, o) ==
  /\ calls[call].pc = "update"
  /\ LET this == calls[call]
         found == {r \in Site : r.site_seq = this.siteSeq}
         updated == {applyUpdates(r, this.updates) : r \in found}
     IN IF o = "ok" /\ found # {}
        THEN /\ Site' = (Site \ found) \cup updated
             /\ calls' = [calls EXCEPT ![call] =
                            [this EXCEPT !.pc = "done", !.response = o, !.data = updated]]
        ELSE /\ calls' = [calls EXCEPT ![call] =
                            [this EXCEPT !.pc = "done", !.response = o,
                                         !.error = IF o = "throw" THEN "exception"
                                                   ELSE "updateError"]]
             /\ UNCHANGED Site
  /\ UNCHANGED <<SiteInfo, SiteDepositPromotion, File, FileDetail, storage, SiteEvent,
                 idVars, mut, ui, queryCache>>
  /\ UNCHANGED <<screenVars, authVars>>
updateSite_Update(o) == updateSite_UpdateOf("updateSite", o)

\* updateSite(siteSeq, updates) of another session, entered while the call of
\* this session is in flight; its updates may carry logo_image: null
OtherUpdateSiteRequests ==
  UpdateSiteRequests \cup [status : Statuses, logo_image : {NoId}]
updateSiteOther_call(siteSeq, updates) ==
  /\ us.pc = "update" /\ usOther.pc = "idle"
  /\ calls' = [calls EXCEPT !.updateSiteOther =
                 [usIdle EXCEPT !.pc = "update", !.siteSeq = siteSeq, !.updates = updates]]
  /\ UNCHANGED <<storeVars, idVars, mut, ui, queryCache, screenVars, authVars>>
updateSiteOther_Update(o) == updateSite_UpdateOf("updateSiteOther", o)

\* SiteManagementTable.updateSiteMutation.onSuccess: only a response with data
\* invalidates ['sites'] and ['siteCounts'] and shows the toast
updateSiteMutation_settle ==
  /\ mut = [name |-> "update", status |-> "pending"]
  /\ us.pc = "done"
  /\ mut' = [mut EXCEPT !.status = "success"]
  /\ IF us.data # {}
     THEN /\ siteTable' = invalidateSites
          /\ queryCache' = invalidateSiteCounts
          /\ ui' = [ui EXCEPT !.toast = "success"]
     ELSE UNCHANGED <<siteTable, queryCache, ui>>
  /\ UNCHANGED <<storeVars, idVars, calls>>
  /\ UNCHANGED <<wizard, detail, authVars>>

\* SiteDetail.updateSiteMutation.onSuccess: invalidates ['site', siteSeq] and
\* ['site-logo', logoImage], shows the toast and leaves the edit form
SiteDetail_updateSiteMutation_settle ==
  /\ mut = [name |-> "updateDetail", status |-> "pending"]
  /\ us.pc = "done"
  /\ mut' = [mut EXCEPT !.status = "success"]
  /\ ui' = [ui EXCEPT !.toast = "success"]
  /\ detail' = initialDetail
  /\ UNCHANGED <<storeVars, idVars, calls, queryCache>>
  /\ UNCHANGED <<wizard, siteTable, authVars>>

\* ------------------------------------------- SiteDetail: basic-info edit
aggregate == [Site |-> Site, File |-> File, FileDetail |-> FileDetail, storage |-> storage]
\* SiteDetail.handleEditBasicInfo: opens the form on the loaded site;
\* setLogoImage(site.logo_image), setOriginalLogoImage(site.logo_image)
handleEditBasicInfo(siteSeq) ==
  /\ Idle /\ ~detail.isEditingBasicInfo /\ ~ui.wizardOpen
  /\ \E r \in Site : r.site_seq = siteSeq
  /\ LET site == CHOOSE r \in Site : r.site_seq = siteSeq
     IN detail' = [siteSeq |-> siteSeq, isEditingBasicInfo |-> TRUE,
                   logoImage |-> site.logo_image,
                   originalLogoImage |-> site.logo_image,
                   before |-> aggregate, replaced |-> NoFile]
  /\ calls' = noCalls /\ mut' = mutIdle
  /\ ui' = [ui EXCEPT !.toast = "none"]
  /\ UNCHANGED <<storeVars, idVars, queryCache, wizard, siteTable, authVars>>

\* ImageUpload.handleRemoveImage of the form's logo control:
\* if (!currentFileSeq) return; deleteImage(currentFileSeq)
handleRemoveImage ==
  /\ detail.isEditingBasicInfo /\ detail.logoImage # NoId
  /\ deleteImage_call(detail.logoImage)

\* the "change image" button and the drop zone of the form's logo control:
\* onDrop hands the picked file to handleFileUpload
onDrop(file) ==
  /\ detail.isEditingBasicInfo
  /\ handleFileUpload(file)

\* SiteDetail.handleSaveBasicInfo on the open form: logo_image is part of the
\* updates only when logoImage !== originalLogoImage
basicInfoUpdates(status) ==
  IF detail.logoImage # detail.originalLogoImage
  THEN [status |-> status, logo_image |-> detail.logoImage]
  ELSE [status |-> status]
saveBasicInfoForm(status) ==
  /\ detail.isEditingBasicInfo
  /\ handleSaveBasicInfo(detail.siteSeq, basicInfoUpdates(status))

\* SiteDetail.handleCancelBasicInfoEdit: resets the component state only
handleCancelBasicInfoEdit ==
  /\ Idle /\ detail.isEditingBasicInfo
  /\ detail' = [detail EXCEPT !.isEditingBasicInfo = FALSE, !.logoImage = NoId,
                              !.originalLogoImage = NoId]
  /\ calls' = noCalls /\ mut' = mutIdle
  /\ ui' = [ui EXCEPT !.toast = "none"]
  /\ UNCHANGED <<storeVars, idVars, queryCache, wizard, siteTable, authVars>>

\* ------------------------------------- calls racing with an uploadImage
\* The queries of the list screen and the calls of another session are not
\* held back by an upload in flight: they enter while its frame is live.
\* the ['sites', ...] query runs fetchFilteredSites again
sitesQuery_refetch(filter, page, pageSize) ==
  /\ ff.pc \in {"idle", "done"}
  /\ calls' = [calls EXCEPT !.fetchFilteredSites =
                 [ffIdle EXCEPT !.pc = "query", !.filter = filter, !.page = page,
                                !.pageSize = pageSize]]
  /\ UNCHANGED <<storeVars, idVars, mut, ui, queryCache, screenVars, authVars>>

\* previewSiteDeletion(siteSeq) of another session
previewSiteDeletion_racing(siteSeq) ==
  /\ pv.pc \in {"idle", "done"}
  /\ calls' = [calls EXCEPT !.previewSiteDeletion =
                 [pvIdle EXCEPT !.pc = "selectSite", !.siteSeq = siteSeq]]
  /\ UNCHANGED <<storeVars, idVars, mut, ui, queryCache, screenVars, authVars>>

\* the file ids a logo control can hold as currentFileSeq: a site's logo
SiteLogos == {r.logo_image : r \in Site} \ {NoId}
\* ImageUpload.handleRemoveImage of another session: deleteImage(currentFileSeq)
deleteImage_racing(fileSeq) ==
  /\ di.pc \in {"idle", "done"}
  /\ fileSeq \in SiteLogos
  /\ calls' = [calls EXCEPT !.deleteImage =
                 [diIdle EXCEPT !.pc = "selectDetail", !.caller = "ImageUpload",
                                !.fileSeq = fileSeq, !.before = snapshot]]
  /\ UNCHANGED <<storeVars, idVars, mut, ui, queryCache, screenVars, authVars>>

\* ---------------------------------------------------------------- signUp
\* the sign-up requests: a login id and an e-mail address (the auth system
\* identifies a user by the address)
SignUpRequests == [id : 1..MaxUsers, email : 1..MaxUsers]
signUp_call(signUpRequest) ==
  /\ Idle
  /\ calls' = [noCalls EXCEPT !.signUp =
                 [suIdle EXCEPT !.pc = "authSignUp", !.signUpRequest = signUpRequest]]
  /\ mut' = mutIdle
  /\ ui' = [ui EXCEPT !.toast = "none"]
  /\ UNCHANGED <<storeVars, idVars, queryCache, screenVars, authVars>>

suReturn(user, error) ==
  [calls EXCEPT !.signUp = [su EXCEPT !.pc = "done", !.user = user, !.error = error]]

\* 1. supabase.auth.signUp({ email, password }): authError or no user returns
\* at once; an address that is registered already creates no user
signUp_AuthSignUp(o) ==
  /\ su.pc = "authSignUp"
  /\ IF o = "ok" /\ su.signUpRequest.email \notin authUsers
     THEN /\ authUsers' = authUsers \cup {su.signUpRequest.email}
          /\ calls' = [calls EXCEPT !.signUp =
                         [su EXCEPT !.pc = "insertUserInfo",
                                    !.authData = su.signUpRequest.email]]
     ELSE /\ calls' = suReturn(NoId, IF o = "throw" THEN "exception" ELSE "authError")
          /\ UNCHANGED authUsers
  /\ UNCHANGED <<storeVars, idVars, mut, ui, queryCache, screenVars, UserInfo>>

\* 2. insert into UserInfo { id, uid: authData.user.id, ... }; id is the key
\* of the table. userInfoError goes on to the rollback, an exception leaves
\* through the catch
signUp_InsertUserInfo(o) ==
  /\ su.pc = "insertUserInfo"
  /\ IF o = "ok" /\ ~\E r \in UserInfo : r.id = su.signUpRequest.id
     THEN /\ UserInfo' = UserInfo \cup {[id |-> su.signUpRequest.id, uid |-> su.authData]}
          /\ calls' = suReturn(su.authData, NoError)
     ELSE /\ calls' = IF o = "throw"
                      THEN [suReturn(NoId, "exception") EXCEPT !.signUp.userInfoFailed = TRUE]
                      ELSE [calls EXCEPT !.signUp =
                              [su EXCEPT !.pc = "deleteUser", !.userInfoFailed = TRUE]]
          /\ UNCHANGED UserInfo
  /\ UNCHANGED <<storeVars, idVars, mut, ui, queryCache, screenVars, authUsers>>

\* the rollback: await supabase.auth.admin.deleteUser(authData.user.id); its
\* result is not inspected, an exception leaves through the catch
signUp_DeleteUser(o) ==
  /\ su.pc = "deleteUser"
  /\ authUsers' = IF o = "ok" THEN authUsers \ {su.authData} ELSE authUsers
  /\ calls' = [suReturn(NoId, IF o = "throw" THEN "exception" ELSE "userInfoError")
                 EXCEPT !.signUp.rollback = o]
  /\ UNCHANGED <<storeVars, idVars, mut, ui, queryCache, screenVars, UserInfo>>

\* ------------------------------------------------------ addSiteEvent
\* SiteEventModal.addEventMutation: addSiteEvent(siteSeq, eventData) inserts
\* one SiteEvent row under a store-generated site_event_seq and returns
addSiteEvent(siteSeq, o) ==
  /\ Idle
  /\ Cardinality(SiteEvent) < MaxEvents
  /\ SiteEvent' =
       IF o = "ok"
       THEN SiteEvent \cup
              {[site_event_seq |-> CHOOSE n \in 1..MaxEvents :
                                     \A r \in SiteEvent : r.site_event_seq # n,
                site_seq |-> siteSeq]}
       ELSE SiteEvent
  /\ calls' = noCalls /\ mut' = mutIdle
  /\ ui' = [ui EXCEPT !.toast = "none"]
  /\ UNCHANGED <<Site, SiteInfo, SiteDepositPromotion, File, FileDetail, storage,
                 idVars, queryCache>>
  /\ UNCHANGED <<screenVars, authVars>>

\* ------------------------------------------------- previewSiteDeletion
previewSiteDeletion_call(siteSeq) ==
  /\ Idle
  /\ calls' = [noCalls EXCEPT !.previewSiteDeletion =
                 [pvIdle EXCEPT !.pc = "selectSite", !.siteSeq = siteSeq]]
  /\ mut' = mutIdle
  /\ ui' = [ui EXCEPT !.toast = "none"]
  /\ UNCHANGED <<storeVars, idVars, queryCache>>
  /\ UNCHANGED <<screenVars, authVars>>

\* every return with an error carries site: null, logoImage: null and empty
\* relatedData
pvFailed(error) ==
  [calls EXCEPT !.previewSiteDeletion =
     [pvIdle EXCEPT !.pc = "done", !.siteSeq = pv.siteSeq, !.error = error]]

\* select * from Site where site_seq = siteSeq, .single() (no row is an error)
preview_SelectSite_deleting(o) ==
  /\ pv.pc = "selectSite"
  /\ Site' = SiteAfterDelete(pv.siteSeq)
  /\ SiteInfo' = SiteInfoAfterSiteDelete(pv.siteSeq)
  /\ SiteDepositPromotion' = PromotionsAfterSiteDelete(pv.siteSeq)
  /\ SiteEvent' = SiteEventAfterSiteDelete(pv.siteSeq)
  /\ calls' = pvFailed(IF o = "throw" THEN "exception" ELSE "siteError")
  /\ UNCHANGED <<File, FileDetail, storage, idVars, mut, ui, queryCache>>
  /\ UNCHANGED <<screenVars, authVars>>
preview_SelectSite(o) ==
  /\ pv.pc = "selectSite"
  /\ LET found == {r \in Site : r.site_seq = pv.siteSeq}
     IN calls' =
          IF o = "ok" /\ found # {}
          THEN [calls EXCEPT !.previewSiteDeletion =
                  [pv EXCEPT !.site = found,
                             !.pc = IF (CHOOSE r \in found : TRUE).logo_image # NoId
                                    THEN "selectLogo" ELSE "selectRelated"]]
          ELSE pvFailed(IF o = "throw" THEN "exception" ELSE "siteError")
  /\ UNCHANGED <<storeVars, idVars, mut, ui, queryCache>>
  /\ UNCHANGED <<screenVars, authVars>>

\* select file_seq, file_url, file_detail:FileDetail(file_path) from File where
\* file_seq = site.logo_image, .single(); an error leaves logoImage null, a
\* missing FileDetail gives file_path ''
preview_SelectLogo(o) ==
  /\ pv.pc = "selectLogo"
  /\ LET logo == (CHOOSE r \in pv.site : TRUE).logo_image
         fileData == {f \in File : f.file_seq = logo}
         details == {d \in FileDetail : d.file_seq = logo}
         logoImage == {[file_seq |-> f.file_seq, file_url |-> f.file_url,
                        file_path |-> IF details = {} THEN NoId
                                      ELSE (CHOOSE d \in details : TRUE).file_path] :
                       f \in fileData}
     IN calls' =
          IF o = "throw" THEN pvFailed("exception")
          ELSE [calls EXCEPT !.previewSiteDeletion =
                  [pv EXCEPT !.pc = "selectRelated",
                             !.logoImage = IF o = "ok" THEN logoImage ELSE {}]]
  /\ UNCHANGED <<storeVars, idVars, mut, ui, queryCache>>
  /\ UNCHANGED <<screenVars, authVars>>

\* the four child queries awaited together: a child whose query returned an
\* error contributes [], an exception of any child leaves through the catch.
\* No operation of the console writes SiteBannerImg: its query finds no row.
Children == {"siteInfo", "promotions", "events", "banners"}
preview_SelectRelated(o) ==
  /\ pv.pc = "selectRelated"
  /\ LET data(child, rows, empty) == IF o[child] = "ok" THEN rows ELSE empty
     IN calls' =
          IF \E child \in Children : o[child] = "throw"
          THEN pvFailed("exception")
          ELSE [calls EXCEPT !.previewSiteDeletion =
                  [pv EXCEPT
                     !.pc = "done",
                     !.failedChildren = {child \in Children : o[child] = "error"},
                     !.relatedData =
                        [siteInfo |-> data("siteInfo",
                            SelectSeq(SiteInfo, LAMBDA r : r.site_seq = pv.siteSeq), <<>>),
                         promotions |-> data("promotions",
                            SelectSeq(SiteDepositPromotion,
                                      LAMBDA r : r.site_seq = pv.siteSeq), <<>>),
                         events |-> data("events",
                            {r \in SiteEvent : r.site_seq = pv.siteSeq}, {}),
                         banners |-> {}]]]
  /\ UNCHANGED <<storeVars, idVars, mut, ui, queryCache>>
  /\ UNCHANGED <<screenVars, authVars>>

\* ------------------------------------------------- the siteCounts query
\* totalCount of fetchFilteredSites(filter): count || 0 on success, 0 with the
\* error otherwise (an exception of the query ends in the same result)
CountOutcomes == {"ok", "error"}
totalCountOf(filter, o) == IF o = "ok" THEN queryCount(filter) ELSE 0

\* the queryFn of ['siteCounts']: four fetchFilteredSites calls awaited
\* together, whose errors are not inspected
siteCounts_queryFn(o) ==
  [allCount |-> totalCountOf(NoFilter, o[1]),
   activeCount |-> totalCountOf([NoFilter EXCEPT !.status = "active"], o[2]),
   suspendedCount |-> totalCountOf([NoFilter EXCEPT !.status = "suspended"], o[3]),
   closedCount |-> totalCountOf([NoFilter EXCEPT !.status = "closed"], o[4])]

\* the list screen reads the counts (mount or re-render of its useQuery): an
\* absent, invalidated or stale entry is fetched, a fresh one is served as it is
readSiteCounts(o) ==
  /\ Idle
  /\ queryCache' =
       IF ~queryCache.present \/ queryCache.isInvalidated \/ queryCache.isStale
       THEN [present |-> TRUE, isInvalidated |-> FALSE, isStale |-> FALSE,
             data |-> siteCounts_queryFn(o)]
       ELSE queryCache
  /\ calls' = noCalls /\ mut' = mutIdle
  /\ ui' = [ui EXCEPT !.toast = "none"]
  /\ UNCHANGED <<storeVars, idVars>>
  /\ UNCHANGED <<screenVars, authVars>>

\* staleTime: 5 * 60 * 1000 has elapsed since the entry was fetched
siteCounts_staleTimeElapsed ==
  /\ queryCache.present /\ ~queryCache.isStale
  /\ queryCache' = [queryCache EXCEPT !.isStale = TRUE]
  /\ UNCHANGED <<storeVars, idVars, calls, mut, ui>>
  /\ UNCHANGED <<screenVars, authVars>>

\* ------------------------------------------- SiteManagementTable paging
\* String.prototype.trim on a sequence of characters
RECURSIVE trimStart(_)
trimStart(s) == IF s # <<>> /\ Head(s) = " " THEN trimStart(Tail(s)) ELSE s
RECURSIVE trimEnd(_)
trimEnd(s) == IF s # <<>> /\ s[Len(s)] = " " THEN trimEnd(SubSeq(s, 1, Len(s) - 1)) ELSE s
trim(s) == trimEnd(trimStart(s))

\* the filter object built from the selected tab and the search box
tableFilter(t) ==
  [NoFilter EXCEPT !.status = IF t.selectedFilter # "all" THEN t.selectedFilter ELSE "",
                   !.search = trim(t.searchTerm)]
\* queryKey: ['sites', filter, currentPage, pageSize]
queryKey(t) == <<tableFilter(t), t.currentPage, tablePageSize>>

\* Math.ceil(totalCount / pageSize) of the totalCount on display
totalPages == (siteTable.totalCount + tablePageSize - 1) \div tablePageSize

\* a re-render after setState: a changed query key makes its query due, and
\* placeholderData keeps the data of the previous key on display meanwhile
rendered(t) ==
  IF queryKey(t) # queryKey(siteTable)
  THEN [t EXCEPT !.stale = TRUE, !.isFetching = FALSE,
                 !.isPlaceholderData = siteTable.hasData, !.isError = FALSE]
  ELSE t

\* the queryFn of the sites query enters
\* fetchFilteredSites(filter, currentPage, pageSize)
sitesQuery_queryFn ==
  /\ siteTable.stale
  /\ calls' = [calls EXCEPT !.fetchFilteredSites =
                 [ffIdle EXCEPT !.pc = "query", !.filter = tableFilter(siteTable),
                                !.page = siteTable.currentPage,
                                !.pageSize = tablePageSize]]
  /\ siteTable' = [siteTable EXCEPT !.stale = FALSE, !.isFetching = TRUE]
  /\ UNCHANGED <<storeVars, idVars, mut, ui, queryCache, wizard, detail, authVars>>

\* the queryFn returns { sites: data || [], totalCount } or throws the error;
\* a failed fetch of a key that has no data of its own leaves queryResult
\* undefined, a failed refetch keeps the data
sitesQuery_settle ==
  /\ siteTable.isFetching /\ ~siteTable.stale
  /\ ff.pc = "done"
  /\ siteTable' =
       IF ff.error = NoError
       THEN [siteTable EXCEPT !.isFetching = FALSE, !.hasData = TRUE,
                              !.isPlaceholderData = FALSE, !.isError = FALSE,
                              !.sites = ff.data, !.totalCount = ff.totalCount]
       ELSE IF siteTable.isPlaceholderData \/ ~siteTable.hasData
            THEN [siteTable EXCEPT !.isFetching = FALSE, !.hasData = FALSE,
                                   !.isPlaceholderData = FALSE, !.isError = TRUE,
                                   !.sites = <<>>, !.totalCount = 0]
            ELSE [siteTable EXCEPT !.isFetching = FALSE, !.isError = TRUE]
  /\ UNCHANGED <<storeVars, idVars, calls, mut, ui, queryCache, wizard, detail, authVars>>

handlePageChange(page) ==
  /\ siteTable' = rendered([siteTable EXCEPT !.currentPage = page])
  /\ UNCHANGED <<storeVars, idVars, calls, mut, ui, queryCache, wizard, detail, authVars>>

FilterTabs == {"all", "active", "suspended", "closed"}
handleFilterChange(filter) ==
  /\ siteTable' = rendered([siteTable EXCEPT !.selectedFilter = filter, !.currentPage = 1])
  /\ UNCHANGED <<storeVars, idVars, calls, mut, ui, queryCache, wizard, detail, authVars>>

SearchInputs == {<<>>, <<"a", " ">>}
handleSearchChange(value) ==
  /\ siteTable' = rendered([siteTable EXCEPT !.searchTerm = value, !.currentPage = 1])
  /\ UNCHANGED <<storeVars, idVars, calls, mut, ui, queryCache, wizard, detail, authVars>>

\* Pagination is rendered when totalPages > 0 and renders nothing when
\* totalPages <= 1
getPageNumbers ==
  IF totalPages <= 7 THEN 1..totalPages
  ELSE IF siteTable.currentPage <= 3 THEN {1, 2, 3, 4, totalPages}
  ELSE IF siteTable.currentPage >= totalPages - 2
       THEN {1} \cup ((totalPages - 3)..totalPages)
  ELSE {1, siteTable.currentPage - 1, siteTable.currentPage,
        siteTable.currentPage + 1, totalPages}
Pagination_handlePrevious ==
  /\ totalPages > 1
  /\ siteTable.currentPage > 1
  /\ handlePageChange(siteTable.currentPage - 1)
Pagination_handleNext ==
  /\ totalPages > 1
  /\ siteTable.currentPage < totalPages
  /\ handlePageChange(siteTable.currentPage + 1)
Pagination_pageNumber(pageNumber) ==
  /\ totalPages > 1
  /\ pageNumber \in getPageNumbers
  /\ handlePageChange(pageNumber)

\* the rows on display, each with its delete button
displayedSites == {siteTable.sites[i].site.site_seq : i \in 1..Len(siteTable.sites)}

\* --------------------------------------------------------- specifications

Next ==
  \/ OpenWizard
  \/ \E siteData \in DefaultPromotionData : handleSubmit(siteData)
  \/ \E o \in Outcomes : createSite_InsertSite(o)
  \/ \E o \in Outcomes : createSite_InsertSiteInfo(o)
  \/ \E o \in Outcomes : createSite_DeleteAfterSiteInfo(o)
  \/ \E o \in Outcomes : createSite_InsertPromotions(o)
  \/ \E o \in Outcomes : createSite_DeleteAfterPromotions(o)
  \/ createSiteMutation_settle
  \/ \E file \in Blobs : handleFileUpload(file)
  \/ \E o \in Outcomes : uploadImageToStorage(o)
  \/ \E o \in Outcomes : saveFile_InsertFile(o)
  \/ \E o \in Outcomes : saveFile_InsertFileDetail(o)
  \/ \E o \in Outcomes : saveFile_DeleteFile(o)
  \/ \E o \in Outcomes : uploadImage_RemoveFromStorage(o)
  \/ \E fileSeq \in 1..(nextFile - 1) : deleteImage_call(fileSeq)
  \/ \E o \in Outcomes : deleteImage_SelectDetail(o)
  \/ \E o \in Outcomes : deleteImage_RemoveFromStorage(o)
  \/ \E o \in Outcomes : deleteImage_DeleteFile(o)
  \/ handleConnectionTest
  \/ \E file \in Blobs : handleFileSelect(file)
  \/ \E o \in Outcomes : debug_Read(o)
  \/ \E o \in Outcomes : debug_InsertFile(o)
  \/ \E o \in Outcomes : debug_ListBucket(o)
  \/ \E siteSeq \in {r.site_seq : r \in Site} : handleDelete(siteSeq)
  \/ \E o \in Outcomes : deleteSite_SelectSite(o)
  \/ \E o \in Outcomes : deleteSite_DeleteSite(o)
  \/ deleteSiteMutation_settle
  \/ \E filter \in SiteFilters, page \in 1..MaxPage, pageSize \in 1..MaxPageSize :
       fetchFilteredSites_call(filter, page, pageSize)
  \/ \E o \in Outcomes : fetch_Query(o)
  \/ \E o \in Outcomes : fetch_SelectFiles(o)

Spec == Init /\ [][Next]_vars

\* the registration saga alone, with every promotion list the wizard can hold
NextSaga ==
  \/ OpenWizard
  \/ \E siteData \in SiteRegistrationData : handleSubmit(siteData)
  \/ \E o \in Outcomes : createSite_InsertSite(o)
  \/ \E o \in Outcomes : createSite_InsertSiteInfo(o)
  \/ \E o \in Outcomes : createSite_DeleteAfterSiteInfo(o)
  \/ \E o \in Outcomes : createSite_InsertPromotions(o)
  \/ \E o \in Outcomes : createSite_DeleteAfterPromotions(o)
  \/ createSiteMutation_settle

SpecSaga == Init /\ [][NextSaga]_vars
\* every remote call of createSiteWithDetails is awaited and the client gets
\* an answer (a result, an error or a thrown exception) to each of them
createSite_response ==
  \/ \E o \in Outcomes : createSite_InsertSite(o)
  \/ \E o \in Outcomes : createSite_InsertSiteInfo(o)
  \/ \E o \in Outcomes : createSite_DeleteAfterSiteInfo(o)
  \/ \E o \in Outcomes : createSite_InsertPromotions(o)
  \/ \E o \in Outcomes : createSite_DeleteAfterPromotions(o)
SpecSagaFair == SpecSaga /\ WF_vars(createSite_response)

\* uploadImage and deleteImage alone
NextBlob ==
  \/ \E file \in Blobs : handleFileUpload(file)
  \/ \E o \in Outcomes : uploadImageToStorage(o)
  \/ \E o \in Outcomes : saveFile_InsertFile(o)
  \/ \E o \in Outcomes : saveFile_InsertFileDetail(o)
  \/ \E o \in Outcomes : saveFile_DeleteFile(o)
  \/ \E o \in Outcomes : uploadImage_RemoveFromStorage(o)
  \/ \E fileSeq \in 1..(nextFile - 1) : deleteImage_call(fileSeq)
  \/ \E o \in Outcomes : deleteImage_SelectDetail(o)
  \/ \E o \in Outcomes : deleteImage_RemoveFromStorage(o)
  \/ \E o \in Outcomes : deleteImage_DeleteFile(o)

SpecBlob == Init /\ [][NextBlob]_vars

\* the whole file service
NextFile ==
  \/ NextBlob
  \/ handleConnectionTest
  \/ \E file \in Blobs : handleFileSelect(file)
  \/ \E o \in Outcomes : debug_Read(o)
  \/ \E o \in Outcomes : debug_InsertFile(o)
  \/ \E o \in Outcomes : debug_ListBucket(o)

SpecFile == Init /\ [][NextFile]_vars

\* successful uploads and registrations (every remote call "ok") build sites
\* with logos; their deletion runs with every outcome of every remote call
NextDelete ==
  \/ \E file \in Blobs : handleFileUpload(file)
  \/ uploadImageToStorage("ok")
  \/ saveFile_InsertFile("ok")
  \/ saveFile_InsertFileDetail("ok")
  \/ OpenWizard
  \/ \E siteData \in DefaultPromotionData : handleSubmit(siteData)
  \/ createSite_InsertSite("ok")
  \/ createSite_InsertSiteInfo("ok")
  \/ createSite_InsertPromotions("ok")
  \/ createSiteMutation_settle
  \/ \E siteSeq \in {r.site_seq : r \in Site} : handleDelete(siteSeq)
  \/ \E o \in Outcomes : deleteSite_SelectSite(o)
  \/ \E o \in Outcomes : deleteImage_SelectDetail(o)
  \/ \E o \in Outcomes : deleteImage_RemoveFromStorage(o)
  \/ \E o \in Outcomes : deleteImage_DeleteFile(o)
  \/ \E o \in Outcomes : deleteSite_DeleteSite(o)
  \/ deleteSiteMutation_settle

SpecDelete == Init /\ [][NextDelete]_vars

\* the five services with every outcome of every remote call, over one site
\* name and the first page of the listing
NextServices ==
  \/ \E file \in Blobs : handleFileUpload(file)
  \/ \E o \in Outcomes : uploadImageToStorage(o)
  \/ \E o \in Outcomes : saveFile_InsertFile(o)
  \/ \E o \in Outcomes : saveFile_InsertFileDetail(o)
  \/ \E o \in Outcomes : saveFile_DeleteFile(o)
  \/ \E o \in Outcomes : uploadImage_RemoveFromStorage(o)
  \/ \E fileSeq \in 1..(nextFile - 1) : deleteImage_call(fileSeq)
  \/ \E o \in Outcomes : deleteImage_SelectDetail(o)
  \/ \E o \in Outcomes : deleteImage_RemoveFromStorage(o)
  \/ \E o \in Outcomes : deleteImage_DeleteFile(o)
  \/ OpenWizard
  \/ \E siteData \in SingleDraftData : handleSubmit(siteData)
  \/ \E o \in Outcomes : createSite_InsertSite(o)
  \/ \E o \in Outcomes : createSite_InsertSiteInfo(o)
  \/ \E o \in Outcomes : createSite_DeleteAfterSiteInfo(o)
  \/ \E o \in Outcomes : createSite_InsertPromotions(o)
  \/ \E o \in Outcomes : createSite_DeleteAfterPromotions(o)
  \/ createSiteMutation_settle
  \/ \E siteSeq \in {r.site_seq : r \in Site} : handleDelete(siteSeq)
  \/ \E o \in Outcomes : deleteSite_SelectSite(o)
  \/ \E o \in Outcomes : deleteSite_DeleteSite(o)
  \/ deleteSiteMutation_settle
  \/ \E filter \in SiteFilters : fetchFilteredSites_call(filter, 1, MaxPageSize)
  \/ \E o \in Outcomes : fetch_Query(o)
  \/ \E o \in Outcomes : fetch_SelectFiles(o)

SpecServices == Init /\ [][NextServices]_vars

\* successful uploads, registrations and event insertions build the sites;
\* their deletion preview runs with every outcome of every query
NextPreview ==
  \/ \E file \in Blobs : handleFileUpload(file)
  \/ uploadImageToStorage("ok")
  \/ saveFile_InsertFile("ok")
  \/ saveFile_InsertFileDetail("ok")
  \/ OpenWizard
  \/ \E siteData \in SingleDraftData : handleSubmit(siteData)
  \/ createSite_InsertSite("ok")
  \/ createSite_InsertSiteInfo("ok")
  \/ createSite_InsertPromotions("ok")
  \/ createSiteMutation_settle
  \/ \E siteSeq \in {r.site_seq : r \in Site}, o \in Outcomes : addSiteEvent(siteSeq, o)
  \/ \E siteSeq \in 1..(nextSite - 1) : previewSiteDeletion_call(siteSeq)
  \/ \E o \in Outcomes : preview_SelectSite(o)
  \/ \E o \in Outcomes : preview_SelectLogo(o)
  \/ \E o \in [Children -> Outcomes] : preview_SelectRelated(o)

SpecPreview == Init /\ [][NextPreview]_vars

\* the list screen and the detail screen over sites without logos: successful
\* registrations, then edits, deletions, reads of the tab-badge counts
NextCounts ==
  \/ OpenWizard
  \/ \E siteData \in SingleDraftData : handleSubmit(siteData)
  \/ createSite_InsertSite("ok")
  \/ createSite_InsertSiteInfo("ok")
  \/ createSite_InsertPromotions("ok")
  \/ createSiteMutation_settle
  \/ \E siteSeq \in {r.site_seq : r \in Site}, updates \in UpdateSiteRequests :
       handleSave(siteSeq, updates)
  \/ \E siteSeq \in {r.site_seq : r \in Site}, updates \in UpdateSiteRequests :
       handleSaveBasicInfo(siteSeq, updates)
  \/ \E o \in Outcomes : updateSite_Update(o)
  \/ updateSiteMutation_settle
  \/ SiteDetail_updateSiteMutation_settle
  \/ \E siteSeq \in {r.site_seq : r \in Site} : handleDelete(siteSeq)
  \/ \E o \in Outcomes : deleteSite_SelectSite(o)
  \/ \E o \in Outcomes : deleteSite_DeleteSite(o)
  \/ deleteSiteMutation_settle
  \/ \E o \in [1..4 -> CountOutcomes] : readSiteCounts(o)
  \/ siteCounts_staleTimeElapsed

SpecCounts == Init /\ [][NextCounts]_vars

\* the listing over the stores that successful uploads and registrations build
InitList ==
  /\ \E nf \in 0..MaxFiles, ns \in 0..MaxSites :
       /\ nextFile = nf + 1 /\ nextPath = nf + 1 /\ nextSite = ns + 1
       /\ storage = 1..nf
       /\ File = {[file_seq |-> f, file_url |-> f] : f \in 1..nf}
       /\ FileDetail = {[file_seq |-> f, file_path |-> f] : f \in 1..nf}
       /\ SiteInfo = [n \in 1..ns |-> [site_seq |-> n]]
       /\ SiteDepositPromotion = <<>>
       /\ SiteEvent = {}
       /\ \E b \in [1..ns -> BasicInfos], l \in [1..ns -> 0..nf] :
            Site = {[site_seq |-> n, name |-> b[n].name, url |-> b[n].url,
                     type |-> b[n].type, is_recommend |-> FALSE,
                     status |-> b[n].status, logo_image |-> l[n]] : n \in 1..ns}
  /\ calls = noCalls
  /\ mut = mutIdle
  /\ ui = [wizardOpen |-> FALSE, toast |-> "none"]
  /\ queryCache = NoCacheEntry
  /\ InitScreens

NextList ==
  \/ \E filter \in SiteFilters, page \in 1..MaxPage, pageSize \in 1..MaxPageSize :
       fetchFilteredSites_call(filter, page, pageSize)
  \/ \E o \in Outcomes : fetch_Query(o)
  \/ \E o \in Outcomes : fetch_SelectFiles(o)

SpecList == InitList /\ [][NextList]_vars

\* the basic-info form of the detail screen with its logo control
NextDetail ==
  \/ \E siteSeq \in {r.site_seq : r \in Site} : handleEditBasicInfo(siteSeq)
  \/ \E file \in Blobs : onDrop(file)
  \/ \E o \in Outcomes : uploadImageToStorage(o)
  \/ \E o \in Outcomes : saveFile_InsertFile(o)
  \/ \E o \in Outcomes : saveFile_InsertFileDetail(o)
  \/ \E o \in Outcomes : saveFile_DeleteFile(o)
  \/ \E o \in Outcomes : uploadImage_RemoveFromStorage(o)
  \/ handleRemoveImage
  \/ \E o \in Outcomes : deleteImage_SelectDetail(o)
  \/ \E o \in Outcomes : deleteImage_RemoveFromStorage(o)
  \/ \E o \in Outcomes : deleteImage_DeleteFile(o)
  \/ \E status \in Statuses : saveBasicInfoForm(status)
  \/ \E o \in Outcomes : updateSite_Update(o)
  \/ SiteDetail_updateSiteMutation_settle
  \/ handleCancelBasicInfoEdit

\* the detail screen shows one site
InitDetail == InitList /\ Cardinality(Site) = 1
SpecDetail == InitDetail /\ [][NextDetail]_vars

\* the registration wizard from its form to the settled mutation
NextWizard ==
  \/ OpenWizard
  \/ handleClose
  \/ \E basic \in SingleBasicInfo : handleInputChange(basic)
  \/ \E index \in 1..MaxPromos, promotion \in PromotionInputs :
       handlePromotionChange(index, promotion)
  \/ addPromotion
  \/ \E index \in 1..MaxPromos : removePromotion(index)
  \/ handleNext
  \/ handlePrev
  \/ submitForm
  \/ \E o \in Outcomes : createSite_InsertSite(o)
  \/ \E o \in Outcomes : createSite_InsertSiteInfo(o)
  \/ \E o \in Outcomes : createSite_DeleteAfterSiteInfo(o)
  \/ \E o \in Outcomes : createSite_InsertPromotions(o)
  \/ \E o \in Outcomes : createSite_DeleteAfterPromotions(o)
  \/ createSiteMutation_settle

SpecWizard == Init /\ [][NextWizard]_vars

\* an uploadImage and the reads that race with it
NextRace ==
  \/ \E file \in Blobs : handleFileUpload(file)
  \/ \E o \in Outcomes : uploadImageToStorage(o)
  \/ \E o \in Outcomes : saveFile_InsertFile(o)
  \/ \E o \in Outcomes : saveFile_InsertFileDetail(o)
  \/ \E o \in Outcomes : saveFile_DeleteFile(o)
  \/ \E o \in Outcomes : uploadImage_RemoveFromStorage(o)
  \/ sitesQuery_refetch(NoFilter, 1, MaxPageSize)
  \/ \E o \in Outcomes : fetch_Query(o)
  \/ \E o \in Outcomes : fetch_SelectFiles(o)
  \/ \E siteSeq \in {r.site_seq : r \in Site} : previewSiteDeletion_racing(siteSeq)
  \/ \E o \in Outcomes : preview_SelectSite(o)
  \/ \E o \in Outcomes : preview_SelectLogo(o)
  \/ \E o \in Outcomes : preview_SelectRelated([child \in Children |-> o])
  \/ \E fileSeq \in 1..MaxFiles : deleteImage_racing(fileSeq)
  \/ \E o \in Outcomes : deleteImage_SelectDetail(o)
  \/ \E o \in Outcomes : deleteImage_RemoveFromStorage(o)
  \/ \E o \in Outcomes : deleteImage_DeleteFile(o)

\* one site with a logo, and room for one more file
InitRace == InitList /\ Cardinality(Site) = 1 /\ nextFile = MaxFiles /\ SiteLogos # {}
SpecRace == InitRace /\ [][NextRace]_vars

\* two updateSite calls in flight on the sites of the list
NextUpdateRace ==
  \/ \E siteSeq \in {r.site_seq : r \in Site}, updates \in UpdateSiteRequests :
       handleSave(siteSeq, updates)
  \/ \E siteSeq \in {r.site_seq : r \in Site}, updates \in OtherUpdateSiteRequests :
       updateSiteOther_call(siteSeq, updates)
  \/ \E o \in Outcomes : updateSite_Update(o)
  \/ \E o \in Outcomes : updateSiteOther_Update(o)
  \/ updateSiteMutation_settle

InitUpdateRace == InitList /\ Cardinality(Site) = 1 /\ nextFile = MaxFiles
SpecUpdateRace == InitUpdateRace /\ [][NextUpdateRace]_vars

\* the sign-up of users
NextAuth ==
  \/ \E signUpRequest \in SignUpRequests : signUp_call(signUpRequest)
  \/ \E o \in Outcomes : signUp_AuthSignUp(o)
  \/ \E o \in Outcomes : signUp_InsertUserInfo(o)
  \/ \E o \in Outcomes : signUp_DeleteUser(o)

SpecAuth == Init /\ [][NextAuth]_vars

\* the list screen: paging, filter tabs, search box and row deletion over a
\* store of TableSites sites without logos, two of them suspended; the user
\* acts on a table at rest, so that each operation is followed by its
\* refetch before the next one
InitPaging ==
  /\ nextFile = 1 /\ nextPath = 1 /\ nextSite = TableSites + 1
  /\ storage = {} /\ File = {} /\ FileDetail = {}
  /\ SiteInfo = [n \in 1..TableSites |-> [site_seq |-> n]]
  /\ SiteDepositPromotion = <<>>
  /\ SiteEvent = {}
  /\ Site = {[site_seq |-> n, name |-> IF n <= 2 THEN <<"b">> ELSE <<"A", "l">>,
               url |-> <<"x">>, type |-> "casino", is_recommend |-> FALSE,
               status |-> IF n <= 2 THEN "suspended" ELSE "active",
               logo_image |-> NoId] : n \in 1..TableSites}
  /\ calls = noCalls
  /\ mut = mutIdle
  /\ ui = [wizardOpen |-> FALSE, toast |-> "none"]
  /\ queryCache = NoCacheEntry
  /\ InitScreens

tableAtRest == Idle /\ ~siteTable.stale /\ ~siteTable.isFetching

NextPaging ==
  \/ sitesQuery_queryFn
  \/ \E o \in Outcomes : fetch_Query(o)
  \/ sitesQuery_settle
  \/ tableAtRest /\ Pagination_handlePrevious
  \/ tableAtRest /\ Pagination_handleNext
  \/ \E pageNumber \in 1..MaxPage : tableAtRest /\ Pagination_pageNumber(pageNumber)
  \/ \E filter \in FilterTabs : tableAtRest /\ handleFilterChange(filter)
  \/ \E value \in SearchInputs : tableAtRest /\ handleSearchChange(value)
  \/ \E siteSeq \in displayedSites :
       /\ tableAtRest
       /\ TableSites - Cardinality(Site) < MaxDeletions
       /\ handleDelete(siteSeq)
  \/ \E o \in Outcomes : deleteSite_SelectSite(o)
  \/ \E o \in Outcomes : deleteSite_DeleteSite(o)
  \/ deleteSiteMutation_settle

SpecPaging == InitPaging /\ [][NextPaging]_vars

\* ================================================================ claims
Returned(call) == call.pc = "done"
rowsOfSite(table, s) == SelectSeq(table, LAMBDA r : r.site_seq = s)

\* C1: once createSiteWithDetails has returned a non-null error after its root
\* insert took effect (a later step failed, by an error or by an exception),
\* the store holds no Site row created by that attempt.
C1_NoOrphanSite ==
  (Returned(cs) /\ cs.error # NoError /\ cs.siteResult # {})
    => ~ \E r \in Site : r.site_seq = site_seq_of(cs)

\* C2: when the promotion batch insert failed after the Site and SiteInfo
\* inserts succeeded, the returned call leaves no Site row, no SiteInfo row and
\* no SiteDepositPromotion row of that attempt.
C2_PromotionFailureLeavesNothing ==
  (Returned(cs) /\ cs.failed = "insertPromotions")
    => /\ ~ \E r \in Site : r.site_seq = site_seq_of(cs)
       /\ rowsOfSite(SiteInfo, site_seq_of(cs)) = <<>>
       /\ rowsOfSite(SiteDepositPromotion, site_seq_of(cs)) = <<>>

\* C3: when the FileDetail insert failed, once saveFileToDatabase (and with it
\* uploadImage) has returned failure, no File row carries the file_seq that
\* the File insert generated.
C3_DetailFailureRemovesFile ==
  (up.detailFailed /\ (up.saveResult = "failure" \/ Returned(up)))
    => ~ \E f \in File : f.file_seq = up.file_seq

\* C4: after any completed operation of the file service, every File row has
\* a FileDetail row with the same file_seq.
C4_EveryFileHasDetail ==
  Idle => \A f \in File : \E d \in FileDetail : d.file_seq = f.file_seq

\* C5: after any sequence of completed uploadImage and deleteImage calls, the
\* blob of every File row is in object storage and every blob in object
\* storage has a File row.
C5_BlobsAndRowsInLockStep ==
  Idle => /\ \A f \in File : f.file_url \in storage
          /\ \A path \in storage : \E f \in File : f.file_url = path

\* C6 as stated: for a Site with a logo, once deleteSite has returned error
\* null the Site row, the logo's File row and the logo's blob are all absent.
C6_DeletedWithLogo ==
  (Returned(ds) /\ ds.error = NoError /\ ds.logo_image # NoId)
    => /\ ~ \E r \in Site : r.site_seq = ds.siteSeq
       /\ ~ \E f \in File : f.file_seq = ds.logo_image
       /\ ds.logo_url \notin storage

\* C6 amended: for a Site with a logo, once deleteSite has returned error null
\* the Site row is absent, and the logo's File row and blob are absent when
\* the deleteImage call of that deletion returned success.
C6_DeletedWithLogoWhenImageDeleted ==
  (Returned(ds) /\ ds.error = NoError /\ ds.logo_image # NoId)
    => /\ ~ \E r \in Site : r.site_seq = ds.siteSeq
       /\ di.success => /\ ~ \E f \in File : f.file_seq = ds.logo_image
                        /\ ds.logo_url \notin storage

C6_Witness ==
  Returned(ds) /\ ds.error = NoError /\ ds.logo_image # NoId /\ di.success

\* C7: a result of createSiteWithDetails or deleteSite with a non-null error
\* is treated as a failure: no success notification is shown for it and the
\* registration wizard is not closed.
C7_ErrorIsAuthoritative ==
  /\ (mut.name = "create" /\ mut.status \notin {"idle", "pending"} /\ cs.error # NoError)
       => ui.toast # "success" /\ ui.wizardOpen
  /\ (mut.name = "delete" /\ mut.status \notin {"idle", "pending"} /\ ds.error # NoError)
       => ui.toast # "success"

\* C8: when every remote call of createSiteWithDetails succeeded, with N >= 1
\* promotion drafts, the call returns the created Site row with error null and
\* has stored exactly one new Site row, one SiteInfo row of its site_seq and
\* the N promotion rows of its site_seq in the order supplied, each named
\* "<bonus_rate>+<bonus_amount>" followed by the suffix.
C8_HappyPath ==
  (Returned(cs) /\ cs.failed = "")
    => LET s == nextSite - 1
           d == cs.siteData
           rows == rowsOfSite(SiteDepositPromotion, s)
       IN /\ cs.error = NoError
          /\ cs.data = {r \in Site : r.site_seq = s}
          /\ Cardinality(cs.data) = 1
          /\ \A r \in cs.data :
               /\ r.name = d.name /\ r.url = d.url /\ r.type = d.type
               /\ r.status = d.status /\ r.logo_image = d.logo_image
               /\ r.is_recommend = FALSE
          /\ Len(rowsOfSite(SiteInfo, s)) = 1
          /\ Len(d.promotions) >= 1
          /\ Len(rows) = Len(d.promotions)
          /\ \A i \in 1..Len(rows) :
               /\ rows[i].bonus_rate = d.promotions[i].bonus_rate
               /\ rows[i].bonus_amount = d.promotions[i].bonus_amount
               /\ rows[i].promotion_name =
                    ToString(d.promotions[i].bonus_rate) \o "+"
                      \o ToString(d.promotions[i].bonus_amount) \o " ipple"

C8_Witness ==
  /\ Returned(cs) /\ cs.failed = ""
  /\ Len(cs.siteData.promotions) = 2
  /\ cs.siteData.promotions[1].bonus_rate # cs.siteData.promotions[2].bonus_rate
  /\ Len(rowsOfSite(SiteDepositPromotion, nextSite - 1)) = 2

\* the rows fetchFilteredSites obtains for a page of the current store
pageOf(filter, page, pageSize) ==
  queryRows(filter, rangeFrom(page, pageSize), rangeTo(page, pageSize))
RECURSIVE sumOfPages(_, _, _)
sumOfPages(filter, pageSize, lastPage) ==
  IF lastPage = 0 THEN 0
  ELSE Len(pageOf(filter, lastPage, pageSize)) + sumOfPages(filter, pageSize, lastPage - 1)

\* C9: fetchFilteredSites requests rows (page-1)*pageSize .. page*pageSize-1
\* of the filtered set; a returned page has at most pageSize rows, totalCount
\* is the number of rows matching the filter, and over the unchanged store the
\* page lengths of all pages add up to totalCount.
C9_Pagination ==
  Returned(ff)
    => /\ ff.range = <<(ff.page - 1) * ff.pageSize, ff.page * ff.pageSize - 1>>
       /\ ff.error = NoError =>
            /\ Len(ff.data) <= ff.pageSize
            /\ [i \in 1..Len(ff.data) |-> ff.data[i].site] = pageOf(ff.filter, ff.page, ff.pageSize)
            /\ ff.totalCount = Cardinality({r \in Site : matches(r, ff.filter)})
            /\ sumOfPages(ff.filter, ff.pageSize,
                          (ff.totalCount + ff.pageSize - 1) \div ff.pageSize) = ff.totalCount

C9_Witness ==
  /\ Returned(ff) /\ ff.error = NoError
  /\ ff.filter # NoFilter /\ ff.page = 2 /\ ff.pageSize = 1
  /\ Len(ff.data) = 1 /\ ff.totalCount = 2 /\ Cardinality(Site) = 2

\* C10: for a returned page, no File lookup was issued when the page holds no
\* logo id and exactly one otherwise, for the page's non-null logo ids; each
\* row's logo_url is the file_url of its logo's File row, or null when the row
\* has no logo or the lookup failed or found no row; the error stays null.
C10_BatchLookup ==
  (Returned(ff) /\ ~ff.dataIsNull)
    => LET logoIds == {ff.data[i].site.logo_image : i \in 1..Len(ff.data)} \ {NoId}
       IN /\ ff.error = NoError
          /\ IF logoIds = {} THEN ff.lookups = <<>>
             ELSE /\ Len(ff.lookups) = 1
                  /\ {ff.lookups[1][j] : j \in 1..Len(ff.lookups[1])} = logoIds
          /\ \A i \in 1..Len(ff.data) :
               LET id == ff.data[i].site.logo_image
                   resolved == {f \in File : f.file_seq = id}
               IN ff.data[i].logo_url =
                    IF id = NoId \/ ff.lookupFailed \/ resolved = {} THEN NoId
                    ELSE (CHOOSE f \in resolved : TRUE).file_url

C10_Witness ==
  /\ Returned(ff) /\ ~ff.dataIsNull /\ ~ff.lookupFailed
  /\ \E i, j \in 1..Len(ff.data) :
       /\ ff.data[i].site.logo_image # NoId /\ ff.data[i].logo_url # NoId
       /\ ff.data[j].site.logo_image = NoId /\ ff.data[j].logo_url = NoId

\* the match the search is specified to make: the term, compared without
\* regard to case, occurs in the text
isSubstringIgnoringCase(text, term) ==
  \E i \in 1..(Len(text) - Len(term) + 1) :
    \A k \in 1..Len(term) : Lower(text[i + k - 1]) = Lower(term[k])
matchesAsSpecified(site, filter) ==
  /\ filter.type # "" => site.type = filter.type
  /\ filter.status # "" => site.status = filter.status
  /\ filter.is_recommend # "" => site.is_recommend = (filter.is_recommend = "true")
  /\ filter.search # <<>> => \/ isSubstringIgnoringCase(site.name, filter.search)
                             \/ isSubstringIgnoringCase(site.url, filter.search)

\* C11: the rows a successful fetchFilteredSites counts and returns are the
\* rows that equal every supplied equality filter and, when a search term is
\* supplied, contain the term as a case-insensitive substring of their name
\* or of their url.
C11_SearchIsSubstring ==
  (Returned(ff) /\ ff.error = NoError)
    => /\ ff.totalCount = Cardinality({r \in Site : matchesAsSpecified(r, ff.filter)})
       /\ \A i \in 1..Len(ff.data) : matchesAsSpecified(ff.data[i].site, ff.filter)

\* C12: once a create, an update (from the list screen or from the detail
\* screen) or a delete of a Site has succeeded and its mutation has settled,
\* the cached entry of ['siteCounts'] is invalidated.
C12_CountsInvalidated ==
  ( /\ mut.status = "success" /\ queryCache.present
    /\ \/ mut.name = "create" /\ cs.error = NoError
       \/ mut.name \in {"update", "updateDetail"} /\ us.error = NoError
       \/ mut.name = "delete" /\ ds.error = NoError )
    => queryCache.isInvalidated

\* C13: when the FileDetail lookup of deleteImage failed, or the lookup
\* succeeded and the storage deletion failed, the call has returned
\* success=false with an error and the blobs, the File rows and the FileDetail
\* rows are as they were when the call was entered.
C13_FailedDeleteChangesNothing ==
  (di.failed \in {"selectDetail", "removeFromStorage"})
    => /\ Returned(di) /\ ~di.success /\ di.error # NoError
       /\ storage = di.before.storage
       /\ File = di.before.File
       /\ FileDetail = di.before.FileDetail

C13_Witness ==
  /\ Returned(di) /\ di.failed = "removeFromStorage" /\ di.error = "storageError"
  /\ di.file_path \in storage
  /\ \E f \in File : f.file_seq = di.fileSeq
  /\ \E d \in FileDetail : d.file_seq = di.fileSeq

\* C14: a blob over the size ceiling or of a non-image MIME type never gets as
\* far as a remote call: uploadImage issues no storage upload for it, and the
\* handler that picked it issues no other remote call for it.
C14_InvalidBlobNeverUploaded ==
  /\ up.pc \notin {"idle", "upload"} => passesValidation(up.file)
  /\ (dbg.file # NoBlob /\ dbg.pc \notin {"idle", "getSession"}) => passesValidation(dbg.file)

\* a call left by an exception that reached its caller
Thrown(call) == call.pc = "thrown"

\* C15: whatever the outcome of each remote call, an exception included,
\* createSiteWithDetails, fetchFilteredSites, deleteSite, uploadImage and
\* deleteImage are never left by an exception, and a result they return with
\* a non-null error carries null data (and totalCount 0 for the listing).
C15_ResultObjectNeverThrown ==
  /\ ~Thrown(cs) /\ ~Thrown(ff) /\ ~Thrown(ds) /\ ~Thrown(up) /\ ~Thrown(di)
  /\ (Returned(cs) /\ cs.error # NoError) => cs.data = {}
  /\ (Returned(ff) /\ ff.error # NoError)
       => ff.dataIsNull /\ ff.data = <<>> /\ ff.totalCount = 0
  /\ (Returned(up) /\ up.error # NoError) => ~up.success /\ up.fileSeq = NoId
  /\ (Returned(di) /\ di.error # NoError) => ~di.success

C15_Witness ==
  /\ Returned(ds) /\ ds.error = "exception"
  /\ Returned(di) /\ di.error = "exception" /\ di.failed = "deleteFile"

\* C16: no step of previewSiteDeletion changes Site, SiteInfo,
\* SiteDepositPromotion, SiteEvent, File, FileDetail or object storage,
\* whatever its queries answer; and when its Site query succeeded and no query
\* raised an exception, it returns error null with the site, and with an empty
\* list for every child whose query returned an error.
C16_PreviewOnlyReads ==
  /\ [][pv.pc \notin {"idle", "done"} => UNCHANGED storeVars]_vars
  /\ [](Returned(pv) =>
          /\ pv.failedChildren # {} => pv.error = NoError /\ pv.site # {}
          /\ "siteInfo" \in pv.failedChildren => pv.relatedData.siteInfo = <<>>
          /\ "promotions" \in pv.failedChildren => pv.relatedData.promotions = <<>>
          /\ "events" \in pv.failedChildren => pv.relatedData.events = {}
          /\ "banners" \in pv.failedChildren => pv.relatedData.banners = {})

C16_Witness ==
  /\ Returned(pv) /\ pv.error = NoError
  /\ pv.failedChildren = {"events"}
  /\ \E r \in SiteEvent : r.site_seq = pv.siteSeq
  /\ pv.relatedData.events = {} /\ pv.relatedData.siteInfo # <<>>
  /\ pv.logoImage # {}

\* how many times a remote call occurs among those a call has issued
timesIssued(call, remoteCall) ==
  Cardinality({i \in 1..Len(call.issued) : call.issued[i] = remoteCall})

\* C17: a returned createSiteWithDetails has issued each insert at most once;
\* when its SiteInfo insert or its promotion insert failed it has issued
\* exactly one delete of the root Site row, and when its Site insert failed it
\* has issued nothing but that insert.
C17_OneCompensationNoRetry ==
  Returned(cs)
    => /\ timesIssued(cs, "insert Site") <= 1
       /\ timesIssued(cs, "insert SiteInfo") <= 1
       /\ timesIssued(cs, "insert SiteDepositPromotion") <= 1
       /\ cs.failed \in {"insertSiteInfo", "insertPromotions"}
            => timesIssued(cs, "delete Site") = 1
       /\ cs.failed = "insertSite" => cs.issued = <<"insert Site">>

\* C18 as stated: when the File insert or the FileDetail insert of uploadImage
\* failed after the blob was uploaded, the call returns the error and the
\* uploaded blob is still in object storage.
C18_BlobRemains ==
  (Returned(up) /\ up.saveResult = "failure")
    => ~up.success /\ up.error # NoError /\ up.filePath \in storage

\* C18 amended: when the File insert or the FileDetail insert of uploadImage
\* failed after the blob was uploaded, the call has issued a storage removal
\* of the uploaded blob and returns the error; the blob is absent from object
\* storage exactly when that removal succeeded.
C18_BlobRemovedAfterFailedSave ==
  (Returned(up) /\ up.saveResult = "failure")
    => /\ ~up.success /\ up.error # NoError
       /\ up.cleanup # "none"
       /\ up.cleanup = "ok" <=> up.filePath \notin storage

C18_Witness ==
  /\ Returned(up) /\ up.saveResult = "failure" /\ up.detailFailed
  /\ up.cleanup = "ok" /\ up.filePath \notin storage

\* C19: when the Site of a returned deleteSite had a logo and the deletion of
\* that logo failed, the Site delete was issued all the same, and when that
\* delete succeeded deleteSite returned error null and the Site row is gone.
C19_LogoFailureDoesNotAbort ==
  (Returned(ds) /\ ds.logo_image # NoId /\ Returned(di) /\ ~di.success)
    => /\ ds.deleted # "none"
       /\ ds.deleted = "ok" => /\ ds.error = NoError
                               /\ ~ \E r \in Site : r.site_seq = ds.siteSeq

C19_Witness ==
  /\ Returned(ds) /\ ds.logo_image # NoId
  /\ Returned(di) /\ ~di.success /\ di.failed = "removeFromStorage"
  /\ ds.deleted = "ok" /\ ds.error = NoError
  /\ \E f \in File : f.file_seq = ds.logo_image

\* C20: no step of a createSiteWithDetails call that was given an uploaded
\* logo_image changes File, FileDetail or object storage, so after a failed
\* registration the logo's File row, FileDetail row and blob are as before.
C20_SagaLeavesLogoAlone ==
  [][(cs.pc \notin {"idle", "done"} /\ cs.siteData.logo_image # NoId)
       => UNCHANGED <<File, FileDetail, storage>>]_vars

C20_Witness ==
  /\ Returned(cs) /\ cs.error # NoError /\ cs.failed = "insertPromotions"
  /\ cs.siteData.logo_image # NoId
  /\ cs.issued[Len(cs.issued)] = "delete Site"
  /\ ~ \E r \in Site : r.site_seq = site_seq_of(cs)
  /\ \E f \in File : f.file_seq = cs.siteData.logo_image /\ f.file_url \in storage
  /\ \E d \in FileDetail : d.file_seq = cs.siteData.logo_image

\* C21: when an upload through the logo control has taken the place of a file
\* the control referenced, that previous file is destroyed as a removal
\* destroys it: it has no File row, no FileDetail row and no blob.
C21_ReplaceDestroysPrevious ==
  (/\ Returned(up) /\ up.success
   /\ detail.isEditingBasicInfo /\ detail.logoImage = up.fileSeq
   /\ detail.replaced.file_seq # NoId)
  => /\ \A f \in File : f.file_seq # detail.replaced.file_seq
     /\ \A d \in FileDetail : d.file_seq # detail.replaced.file_seq
     /\ detail.replaced.file_path \notin storage

\* C29: once a basic-info edit was cancelled, the stored Site row and the
\* File row, FileDetail row and blob of the logo it had when the edit was
\* started are what they were when the edit was started.
C29_CancelLeavesAggregate ==
  (~detail.isEditingBasicInfo /\ detail.siteSeq # NoId)
  => LET was == detail.before
         logos == {r.logo_image : r \in {q \in was.Site : q.site_seq = detail.siteSeq}}
         paths == {d.file_path : d \in {e \in was.FileDetail : e.file_seq \in logos}}
     IN /\ {r \in Site : r.site_seq = detail.siteSeq}
             = {r \in was.Site : r.site_seq = detail.siteSeq}
        /\ {f \in File : f.file_seq \in logos} = {f \in was.File : f.file_seq \in logos}
        /\ {d \in FileDetail : d.file_seq \in logos}
             = {d \in was.FileDetail : d.file_seq \in logos}
        /\ storage \cap paths = was.storage \cap paths

\* the three mechanisms C22 names: the form's promotion list is never empty;
\* a registration is in flight or awaits its settling only with the form on its last
\* step and a draft that passes the promotion validation; and a call that
\* reports success has stored at least one promotion row for its site
C22_Mechanisms ==
  /\ Len(wizard.promotions) >= 1
  /\ (cs.pc # "idle" /\ mut.status = "pending")
       => /\ wizard.currentStep = "images"
          /\ cs.siteData.promotions = wizard.promotions
          /\ Len(cs.siteData.promotions) >= 1
          /\ \A i \in 1..Len(cs.siteData.promotions) :
               cs.siteData.promotions[i].bonus_rate >= 0
          /\ Len(cs.siteData.name) > 0 /\ Len(cs.siteData.url) > 0
  /\ (Returned(cs) /\ cs.error = NoError)
       => \E i \in 1..Len(SiteDepositPromotion) :
            SiteDepositPromotion[i].site_seq = site_seq_of(cs)

\* C22: the mechanisms above hold and, whenever no registration is in
\* flight, every Site row (all of them were created through the wizard) has at
\* least one SiteDepositPromotion row.
C22_EverySiteHasPromotion ==
  /\ C22_Mechanisms
  /\ Idle => \A r \in Site : \E i \in 1..Len(SiteDepositPromotion) :
                SiteDepositPromotion[i].site_seq = r.site_seq

\* the File rows that the reads in flight are about to return
filesAboutToBeRead ==
  (IF ff.pc = "selectFiles" THEN filesIn(logoImageIds(ff.rows)) ELSE {})
  \cup (IF pv.pc = "selectLogo"
        THEN {f \in File : \E r \in pv.site : f.file_seq = r.logo_image} ELSE {})
  \cup (IF di.pc = "selectDetail" THEN {f \in File : f.file_seq = di.fileSeq} ELSE {})

\* C23: whatever the position of an uploadImage call, every File row that the
\* batch lookup of fetchFilteredSites, the logo query of previewSiteDeletion
\* or the FileDetail lookup of deleteImage is about to read has a FileDetail
\* row.
C23_ReadsSeeWholeFiles ==
  \A f \in filesAboutToBeRead : \E d \in FileDetail : d.file_seq = f.file_seq
\* a batch lookup is about to read a logo while the upload has written its
\* File row and not yet its FileDetail row
C23_Witness ==
  /\ up.pc = "insertFileDetail"
  /\ \E f \in File : f.file_seq = up.file_seq
  /\ ~\E d \in FileDetail : d.file_seq = up.file_seq
  /\ ff.pc = "selectFiles" /\ filesAboutToBeRead # {}

\* C24: when two updateSite calls on one site were in flight together and have
\* both returned, a call that the store answered has error null whatever the
\* other call did, and when the store answered both, the stored row is the row
\* one of them returned, which is the row the other returned with the updates
\* of this last one written over it.
C24_LastWriteWins ==
  (Returned(us) /\ Returned(usOther) /\ us.siteSeq = usOther.siteSeq)
  => /\ \A call \in {us, usOther} : call.response = "ok" => call.error = NoError
     /\ (us.response = "ok" /\ usOther.response = "ok")
          => \E first \in {"updateSite", "updateSiteOther"},
                last \in {"updateSite", "updateSiteOther"} :
               /\ first # last
               /\ {r \in Site : r.site_seq = us.siteSeq} = calls[last].data
               /\ calls[last].data =
                    {applyUpdates(r, calls[last].updates) : r \in calls[first].data}
\* both calls were answered, they wrote different status values, and the
\* call of the other session was applied first
C24_Witness ==
  /\ Returned(us) /\ Returned(usOther) /\ us.siteSeq = usOther.siteSeq
  /\ us.response = "ok" /\ usOther.response = "ok"
  /\ us.updates.status # usOther.updates.status
  /\ "logo_image" \in DOMAIN usOther.updates
  /\ \E r \in Site : /\ r.site_seq = us.siteSeq /\ r.status = us.updates.status
                       /\ r.logo_image = NoId
  /\ \E r \in usOther.data : r.status = usOther.updates.status

\* once the Site insert of a createSiteWithDetails call has taken effect, the
\* call returns
C25_Returns == (cs.siteResult # {} /\ ~Returned(cs)) ~> Returned(cs)
\* C25: under fair answers to its remote calls a createSiteWithDetails whose
\* Site insert has taken effect returns, and when it has returned it is
\* either a success with the Site row, the SiteInfo row and the promotion rows
\* stored, or a failure with the Site row deleted.
C25_RunsToCompletion ==
  /\ C25_Returns
  /\ [](  (Returned(cs) /\ cs.siteResult # {})
          => \/ /\ cs.error = NoError
                /\ \E r \in Site : r.site_seq = site_seq_of(cs)
                /\ Len(rowsOfSite(SiteInfo, site_seq_of(cs))) = 1
                /\ Len(rowsOfSite(SiteDepositPromotion, site_seq_of(cs)))
                     = Len(cs.siteData.promotions)
             \/ /\ cs.error # NoError
                /\ ~\E r \in Site : r.site_seq = site_seq_of(cs))

\* C26: once the storage upload of an uploadImage call has failed, the call
\* has returned success = false with the error of the upload, it has issued
\* no insert into File or FileDetail, and no step changes these tables while
\* the frame of the call is kept.
C26_FailedUploadWritesNoRow ==
  /\ [](up.uploadResult = "failure"
          => /\ Returned(up) /\ ~up.success
             /\ up.error \in {"storageError", "exception"}
             /\ up.filePath = NoId /\ up.file_seq = NoId
             /\ up.saveResult = "none" /\ ~up.detailFailed /\ up.cleanup = "none")
  /\ [][up'.uploadResult = "failure" => UNCHANGED <<File, FileDetail>>]_vars
\* an upload failed while the tables hold the rows of an earlier upload
C26_Witness ==
  /\ Returned(up) /\ up.uploadResult = "failure" /\ up.error = "storageError"
  /\ File # {} /\ FileDetail # {}

\* C28: when deleteSite has returned a non-null error, the Site row still
\* exists, and when the site had a logo the row still references it and the
\* File rows, the FileDetail rows and the blobs are what they were when the
\* logo's deletion was entered.
C28_FailedDeleteSiteChangesNothing ==
  (Returned(ds) /\ ds.error # NoError)
  => /\ \E r \in Site : r.site_seq = ds.siteSeq
     /\ ds.logo_image # NoId
          => /\ \E r \in Site : r.site_seq = ds.siteSeq /\ r.logo_image = ds.logo_image
             /\ File = di.before.File
             /\ FileDetail = di.before.FileDetail
             /\ storage = di.before.storage

\* C27: when a returned signUp had created its auth user and its UserInfo
\* insert failed, the auth user is deleted and signUp returned the UserInfo
\* error with user null; and whenever no signUp is in flight every auth user
\* has a UserInfo row.
C27_SignUpRollsBack ==
  /\ (Returned(su) /\ su.userInfoFailed)
       => /\ su.authData \notin authUsers
          /\ su.error = "userInfoError" /\ su.user = NoId
  /\ Idle => \A uid \in authUsers : \E r \in UserInfo : r.uid = uid

\* the sites query of the current key has answered and nothing is pending
tableSettled ==
  /\ siteTable.hasData /\ ~siteTable.isPlaceholderData /\ ~siteTable.isError
  /\ ~siteTable.stale /\ ~siteTable.isFetching

\* C30: once the sites query of SiteManagementTable has answered for the
\* current page, filter and search, the current page is within
\* 1..max(1, ceil(totalCount / pageSize)) and the table shows at least one
\* row when totalCount is positive.
C30_PageWithinRange ==
  tableSettled
  => /\ siteTable.currentPage >= 1
     /\ siteTable.currentPage <= (IF totalPages > 1 THEN totalPages ELSE 1)
     /\ siteTable.totalCount > 0 => siteTable.sites # <<>>

====
